---- MODULE Spec2Model ----
(***************************************************************************)
(* Timber beam designer: beam analysis (simply supported and overhanging), *)
(* the design check engine and the application run that drives them.       *)
(*                                                                         *)
(* Python floats are modelled as exact numbers n/d * 10^e.  A float        *)
(* division by zero raises ZeroDivisionError in Python; it is modelled by  *)
(* the value Raised, which every arithmetic operator propagates.  Python's *)
(* None is the value None.  Line loads are whole kN/m, 0 or 1; the self    *)
(* weight the application adds to G is part of the drawn dead load.        *)
(***************************************************************************)
EXTENDS Integers, Sequences, FiniteSets, TLC

(***************************************************************************)
(* Bound of the model: spans, overhangs and point load positions are whole *)
(* metres from 0 to MaxSpan.                                               *)
(***************************************************************************)
MaxSpan == 3

(* The point load selectors of main(): up to 2 loads on a simply supported *)
(* beam, 0 or 1 on the back span and 0 or 1 on the overhang.               *)
MaxEntries == 2

MAX_POINT_LOADS_SS == 2

MAX_POINT_LOADS_OVERHANG == 1

(***************************************************************************)
(* Exact arithmetic standing for float arithmetic.  A number is            *)
(* n/d * 10^e, kept in one canonical form: d > 0, n and d coprime and      *)
(* neither divisible by 5 (zero is 0/1 * 10^0), so equal numbers are equal *)
(* records.  The power of ten keeps unit conversions such as m to mm and   *)
(* Nmm to kNm within the integers of the model checker.                    *)
(***************************************************************************)
RECURSIVE GCD(_, _)
GCD(a, b) == IF b = 0 THEN a ELSE GCD(b, a % b)

Abs(x) == IF x < 0 THEN -x ELSE x

RECURSIVE Pow10(_)
Pow10(k) == IF k = 0 THEN 1 ELSE 10 * Pow10(k - 1)

Raised == [n |-> 0, d |-> 0, e |-> 0]

None == [n |-> 0, d |-> -1, e |-> 0]

Zero == [n |-> 0, d |-> 1, e |-> 0]

IsNum(a) == a.d > 0

RECURSIVE Canon(_, _, _)
Canon(n, d, e) ==
    IF n = 0 THEN Zero
    ELSE IF n % 10 = 0 THEN Canon(n \div 10, d, e + 1)
    ELSE IF d % 10 = 0 THEN Canon(n, d \div 10, e - 1)
    ELSE IF n % 5 = 0 THEN Canon(n \div 5, 2 * d, e + 1)
    ELSE IF d % 5 = 0 THEN Canon(2 * n, d \div 5, e - 1)
    ELSE LET g == GCD(Abs(n), d)
         IN  [n |-> n \div g, d |-> d \div g, e |-> e]

Q(n, d) == LET g == GCD(Abs(n), d) IN Canon(n \div g, d \div g, 0)

I(n) == Canon(n, 1, 0)

RNeg(a) == IF IsNum(a) THEN [a EXCEPT !.n = -a.n] ELSE Raised

RAbs(a) == IF IsNum(a) THEN [a EXCEPT !.n = Abs(a.n)] ELSE Raised

RMul(a, b) ==
    IF IsNum(a) /\ IsNum(b)
    THEN IF a.n = 0 \/ b.n = 0
         THEN Zero
         ELSE LET g1 == GCD(Abs(a.n), b.d)
                  g2 == GCD(Abs(b.n), a.d)
              IN  [n |-> (a.n \div g1) * (b.n \div g2),
                   d |-> (a.d \div g2) * (b.d \div g1),
                   e |-> a.e + b.e]
    ELSE Raised

RDiv(a, b) ==
    IF IsNum(a) /\ IsNum(b) /\ b.n # 0
    THEN RMul(a, IF b.n < 0 THEN [n |-> -b.d, d |-> -b.n, e |-> -b.e]
                            ELSE [n |-> b.d, d |-> b.n, e |-> -b.e])
    ELSE Raised

RAdd(a, b) ==
    IF IsNum(a) /\ IsNum(b)
    THEN IF a.n = 0 THEN b
         ELSE IF b.n = 0 THEN a
         ELSE LET e == IF a.e < b.e THEN a.e ELSE b.e
                  an == a.n * Pow10(a.e - e)
                  bn == b.n * Pow10(b.e - e)
                  g == GCD(a.d, b.d)
                  n == an * (b.d \div g) + bn * (a.d \div g)
                  d == (a.d \div g) * b.d
                  h == GCD(Abs(n), d)
              IN  IF n = 0 THEN Zero ELSE Canon(n \div h, d \div h, e)
    ELSE Raised

RSub(a, b) == RAdd(a, RNeg(b))

RSign(a) == IF a.n > 0 THEN 1 ELSE IF a.n < 0 THEN -1 ELSE 0

(* Comparison multiplies across in limbs of four decimal digits, lowest    *)
(* limb first, so that it is exact for every pair of numbers.             *)
Limb == Pow10(4)

RECURSIVE Limbs(_)
Limbs(x) == IF x = 0 THEN <<>> ELSE <<x % Limb>> \o Limbs(x \div Limb)

RECURSIVE LMulSmall(_, _, _)
LMulSmall(s, m, carry) ==
    IF s = <<>> THEN Limbs(carry)
    ELSE LET t == Head(s) * m + carry
         IN  <<t % Limb>> \o LMulSmall(Tail(s), m, t \div Limb)

RECURSIVE LAdd(_, _, _)
LAdd(s, t, carry) ==
    IF s = <<>> /\ t = <<>> THEN Limbs(carry)
    ELSE LET x == (IF s = <<>> THEN 0 ELSE Head(s))
                  + (IF t = <<>> THEN 0 ELSE Head(t)) + carry
         IN  <<x % Limb>> \o LAdd(IF s = <<>> THEN s ELSE Tail(s),
                                  IF t = <<>> THEN t ELSE Tail(t),
                                  x \div Limb)

RECURSIVE LMul(_, _)
LMul(s, t) ==
    IF t = <<>> THEN <<>>
    ELSE LAdd(IF Head(t) = 0 THEN <<>> ELSE LMulSmall(s, Head(t), 0),
              LET r == LMul(s, Tail(t)) IN IF r = <<>> THEN r ELSE <<0>> \o r,
              0)

RECURSIVE LShift(_, _)
LShift(s, k) == IF k = 0 THEN s ELSE LShift(LMulSmall(s, 10, 0), k - 1)

RECURSIVE LLess(_, _)
LLess(s, t) ==
    IF Len(s) # Len(t) THEN Len(s) < Len(t)
    ELSE IF s = <<>> THEN FALSE
    ELSE IF Tail(s) = Tail(t) THEN Head(s) < Head(t)
    ELSE LLess(Tail(s), Tail(t))

(* |a| against |b| for numbers other than zero. *)
MagLess(a, b) ==
    LET e == IF a.e < b.e THEN a.e ELSE b.e
    IN  LLess(LShift(LMul(Limbs(Abs(a.n)), Limbs(b.d)), a.e - e),
              LShift(LMul(Limbs(Abs(b.n)), Limbs(a.d)), b.e - e))

RLt(a, b) ==
    /\ IsNum(a) /\ IsNum(b)
    /\ IF RSign(a) # RSign(b) THEN RSign(a) < RSign(b)
       ELSE IF RSign(a) > 0 THEN MagLess(a, b)
       ELSE IF RSign(a) < 0 THEN MagLess(b, a)
       ELSE FALSE

RLe(a, b) == IsNum(a) /\ IsNum(b) /\ ~RLt(b, a)

RMax(a, b) ==
    IF IsNum(a) /\ IsNum(b) THEN (IF RLt(a, b) THEN b ELSE a) ELSE Raised

RMin(a, b) ==
    IF IsNum(a) /\ IsNum(b) THEN (IF RLt(b, a) THEN b ELSE a) ELSE Raised

RSq(a) == RMul(a, a)

(***************************************************************************)
(* material_data.py: the grade table and the fixed factors.                *)
(***************************************************************************)
ValueError == [exception |-> "ValueError"]

IsValueError(r) == "exception" \in DOMAIN r

RECURSIVE SumOver(_)
SumOver(s) == IF Len(s) = 0 THEN Zero ELSE RAdd(Head(s), SumOver(Tail(s)))

Grade(fb, fs, fp, E, phi, k2, density, rho_b) ==
    [fb |-> fb, fs |-> fs, fp |-> fp, E |-> E, phi |-> phi, k2 |-> k2,
     density |-> density, rho_b |-> rho_b]

TIMBER_GRADES ==
    ("SG8" :> Grade(I(14), Q(38, 10), Q(69, 10), I(8000), Q(8, 10), I(2),
                    I(450), Q(76, 100)))
 @@ ("SG8 Wet in Use" :> Grade(Q(117, 10), Q(24, 10), Q(53, 10), I(6500),
                    Q(8, 10), I(2), I(550), Q(76, 100)))
 @@ ("Prolam PL8" :> Grade(I(19), Q(37, 10), Q(89, 10), I(8000), Q(8, 10),
                    Q(15, 10), I(500), Q(88, 100)))
 @@ ("Prolam PL8 Wet" :> Grade(Q(152, 10), Q(25, 10), Q(53, 10), I(6400),
                    Q(8, 10), Q(15, 10), I(600), Q(88, 100)))
 @@ ("Prolam PL10" :> Grade(I(22), Q(37, 10), Q(89, 10), I(10000), Q(8, 10),
                    Q(15, 10), I(530), Q(85, 100)))
 @@ ("Prolam PL10 Wet" :> Grade(Q(176, 10), Q(25, 10), Q(53, 10), I(8000),
                    Q(8, 10), Q(15, 10), I(630), Q(85, 100)))
 @@ ("Prolam PL12" :> Grade(I(25), Q(37, 10), Q(89, 10), I(11500), Q(8, 10),
                    Q(15, 10), I(560), Q(84, 100)))
 @@ ("Prolam PL12 Wet" :> Grade(I(20), Q(25, 10), Q(53, 10), I(9200),
                    Q(8, 10), Q(15, 10), I(660), Q(84, 100)))
 @@ ("Prolam PL17" :> Grade(I(42), Q(37, 10), Q(89, 10), I(16700), Q(8, 10),
                    Q(15, 10), I(620), Q(91, 100)))
 @@ ("Prolam PL17 Wet" :> Grade(Q(336, 10), Q(25, 10), Q(53, 10), I(13400),
                    Q(8, 10), Q(15, 10), I(720), Q(91, 100)))
 @@ ("hySPAN" :> Grade(I(48), Q(46, 10), I(12), I(13200), Q(9, 10), I(2),
                    I(600), Q(108, 100)))
 @@ ("LVL" :> Grade(I(42), Q(46, 10), I(12), I(13200), Q(9, 10), I(2),
                    I(600), Q(101, 100)))
 @@ ("hyONE" :> Grade(I(48), Q(46, 10), I(12), I(16000), Q(9, 10), I(2),
                    I(600), Q(99, 100)))
 @@ ("hyCHORD" :> Grade(I(48), Q(46, 10), Q(1111, 100), I(11000), Q(9, 10),
                    I(2), I(600), Q(118, 100)))
 @@ ("Nelson Pine" :> Grade(I(42), I(5), I(12), I(10700), Q(9, 10), I(2),
                    I(600), Q(112, 100)))
 @@ ("Macrocarpa" :> Grade(Q(878, 10), None, None, I(5790), Q(8, 10), I(2),
                    I(480), Q(76, 100)))
 @@ ("hy90" :> Grade(I(34), Q(46, 10), I(12), I(9500), Q(9, 10), I(2),
                    I(600), Q(107, 100)))

K1_FACTORS ==
    ("short_term" :> I(1)) @@ ("medium_term" :> Q(8, 10))
 @@ ("long_term" :> Q(6, 10))

K4_DRY == I(1)

K6_DEFAULT == I(1)

(* Variant: two of the LVL products missing from the list. *)
is_lvl_grade_short(grade_name) == grade_name \in { "LVL", "hyONE", "hyCHORD", "Nelson Pine" }

is_lvl_grade(grade_name) ==
    grade_name \in { "hySPAN", "LVL", "hyONE", "hyCHORD", "Nelson Pine",
                     "hy90" }

(* grade_name.startswith("Prolam"): of the names of the grade table, these. *)
is_glulam_grade(grade_name) ==
    grade_name \in { "Prolam PL8", "Prolam PL8 Wet", "Prolam PL10",
                     "Prolam PL10 Wet", "Prolam PL12", "Prolam PL12 Wet",
                     "Prolam PL17", "Prolam PL17 Wet" }

(* Variant: an unknown name answered with the first grade of the table. *)
get_grade_default(grade_name) == IF grade_name \notin DOMAIN TIMBER_GRADES THEN TIMBER_GRADES["SG8"] ELSE TIMBER_GRADES[grade_name]

get_grade(grade_name) ==
    IF grade_name \notin DOMAIN TIMBER_GRADES
    THEN ValueError
    ELSE TIMBER_GRADES[grade_name]

(***************************************************************************)
(* section_properties.py: TimberSection, dimensions in mm.                 *)
(***************************************************************************)
(* Variant: a width of zero accepted. *)
TimberSection_zero_width(width_mm, depth_mm) == IF RLt(width_mm, Zero) \/ RLe(depth_mm, Zero) THEN ValueError ELSE [b |-> width_mm, d |-> depth_mm]

TimberSection(width_mm, depth_mm) ==
    IF RLe(width_mm, Zero) \/ RLe(depth_mm, Zero)
    THEN ValueError
    ELSE [b |-> width_mm, d |-> depth_mm]

Zx(section) == RDiv(RMul(section.b, RSq(section.d)), I(6))

Ix(section) == RDiv(RMul(section.b, RMul(section.d, RSq(section.d))), I(12))

shear_area(section) == RMul(RMul(RDiv(I(2), I(3)), section.b), section.d)

bearing_area(section, bearing_length_mm) == RMul(bearing_length_mm, section.b)

(***************************************************************************)
(* loads.py: LineLoads and the point loads.                                *)
(***************************************************************************)
LineLoads(G, Qv) == [G |-> G, Q |-> Qv]

w_uls(ll) ==
    RMax(RMul(Q(135, 100), ll.G),
         RAdd(RMul(Q(12, 10), ll.G), RMul(Q(15, 10), ll.Q)))

w_sls_short(ll) == RAdd(ll.G, RMul(Q(7, 10), ll.Q))

w_sls_long(ll) == RAdd(ll.G, RMul(Q(4, 10), ll.Q))

(* Variant: a tie between the two combinations goes to the second. *)
uls_combo_label_strict(ll) == IF RLt(RAdd(RMul(Q(12, 10), ll.G), RMul(Q(15, 10), ll.Q)), RMul(Q(135, 100), ll.G)) THEN "1.35G" ELSE "1.2G + 1.5Q"

uls_combo_label(ll) ==
    IF RLe(RAdd(RMul(Q(12, 10), ll.G), RMul(Q(15, 10), ll.Q)),
           RMul(Q(135, 100), ll.G))
    THEN "1.35G"
    ELSE "1.2G + 1.5Q"

GRAVITY == Q(981, 100)

LoadEntry(load_type, dead_kpa, live_kpa, trib_width_m) ==
    [load_type |-> load_type, dead_kpa |-> dead_kpa, live_kpa |-> live_kpa,
     trib_width_m |-> trib_width_m]

G_line(e) == RMul(e.dead_kpa, e.trib_width_m)

Q_line(e) == RMul(e.live_kpa, e.trib_width_m)

StructuredLoads(entries) == [entries |-> entries]

total_G(sl) == SumOver([i \in 1..Len(sl.entries) |-> G_line(sl.entries[i])])

total_Q(sl) == SumOver([i \in 1..Len(sl.entries) |-> Q_line(sl.entries[i])])

calc_self_weight(b_mm, d_mm, density_kg_m3) ==
    LET b_m == RDiv(b_mm, I(1000))
        d_m == RDiv(d_mm, I(1000))
    IN  RDiv(RMul(RMul(RMul(density_kg_m3, b_m), d_m), GRAVITY), I(1000))

(* Variant: the self-weight added to the live load as well. *)
compute_line_loads_both(structured, self_weight_kn_m) == LineLoads(RAdd(total_G(structured), self_weight_kn_m), RAdd(total_Q(structured), self_weight_kn_m))

compute_line_loads(structured, self_weight_kn_m) ==
    LineLoads(RAdd(total_G(structured), self_weight_kn_m),
              total_Q(structured))

PointLoad(P_uls, P_sls, a_m) == [P_uls |-> P_uls, P_sls |-> P_sls, a_m |-> a_m]

PointLoad_validate(pl, span_m) == RLt(Zero, pl.a_m) /\ RLt(pl.a_m, span_m)

(* Variant: the free end excluded. *)
PointLoadOverhang_validate_strict(pl, cant_span_m) ==
    RLt(Zero, pl.a_m) /\ RLt(pl.a_m, cant_span_m)

PointLoadOverhang_validate(pl, cant_span_m) ==
    RLt(Zero, pl.a_m) /\ RLe(pl.a_m, cant_span_m)

(***************************************************************************)
(* beam_analysis.py: BeamActions and the two analysis routines.  A point   *)
(* load list that is None and one that is empty behave alike in the code   *)
(* (if point_loads: / point_loads or []); both are the empty sequence.     *)
(***************************************************************************)
SIMPLY_SUPPORTED == "simply_supported"

OVERHANGING == "overhanging"

BeamActionsDefaults ==
    [beam_type |-> SIMPLY_SUPPORTED, point_loads |-> <<>>,
     M_udl |-> Zero, M_point |-> Zero, V_udl |-> Zero,
     R_left |-> Zero, R_right |-> Zero,
     w_G_back |-> Zero, w_psi_lQ_back |-> Zero,
     w_G_cant |-> Zero, w_psi_lQ_cant |-> Zero,
     back_span_m |-> Zero, cant_span_m |-> Zero,
     w_uls_cant |-> Zero, w_sls_short_cant |-> Zero, w_sls_long_cant |-> Zero,
     M_sagging |-> Zero, M_hogging |-> Zero,
     M_sagging_udl |-> Zero, M_hogging_udl |-> Zero,
     M_sagging_point |-> Zero, M_hogging_point |-> Zero,
     V_at_R2 |-> Zero,
     point_loads_back |-> <<>>, point_loads_cant |-> <<>>]

(* Variant: the product P a (L - a) left undivided by the span. *)
point_load_moment_undivided(P, a, L) == RMul(RMul(P, a), RSub(L, a))

point_load_moment(P, a, L) == RDiv(RMul(RMul(P, a), RSub(L, a)), L)

(* Variant: both supports take the share P a / L. *)
point_load_reactions_same(P, a, L) == [Ra |-> RDiv(RMul(P, a), L), Rb |-> RDiv(RMul(P, a), L)]

point_load_reactions(P, a, L) ==
    [Ra |-> RDiv(RMul(P, RSub(L, a)), L), Rb |-> RDiv(RMul(P, a), L)]

analyse_simply_supported(span_m, w_uls_, w_sls_short_, w_sls_long_, point_loads, w_G, w_psi_lQ) ==
    LET L == span_m
        M_udl == RDiv(RMul(w_uls_, RSq(L)), I(8))
        V_udl == RDiv(RMul(w_uls_, L), I(2))
        R_udl == V_udl
        M_point ==
            SumOver([i \in 1..Len(point_loads) |->
                LET pl == point_loads[i]
                IN  point_load_moment(pl.P_uls, pl.a_m, L)])
        R_left_point ==
            SumOver([i \in 1..Len(point_loads) |->
                LET pl == point_loads[i]
                IN  point_load_reactions(pl.P_uls, pl.a_m, L).Ra])
        R_right_point ==
            SumOver([i \in 1..Len(point_loads) |->
                LET pl == point_loads[i]
                IN  point_load_reactions(pl.P_uls, pl.a_m, L).Rb])
        M_star == RAdd(M_udl, M_point)
        R_left == RAdd(R_udl, R_left_point)
        R_right == RAdd(R_udl, R_right_point)
    IN  [span_m |-> L, w_uls |-> w_uls_, w_sls_short |-> w_sls_short_,
         w_sls_long |-> w_sls_long_, M_star |-> M_star,
         V_star |-> RMax(R_left, R_right), R_max |-> RMax(R_left, R_right),
         beam_type |-> SIMPLY_SUPPORTED, point_loads |-> point_loads,
         M_udl |-> M_udl, M_point |-> M_point, V_udl |-> V_udl,
         R_left |-> R_left, R_right |-> R_right,
         w_G_back |-> w_G, w_psi_lQ_back |-> w_psi_lQ] @@ BeamActionsDefaults

(* Variant: the right support takes the left support's share. *)
point_load_reactions_backspan_left(P, a_from_R1, ell) == [R1 |-> RDiv(RMul(P, RSub(ell, a_from_R1)), ell), R2 |-> RDiv(RMul(P, RSub(ell, a_from_R1)), ell)]

point_load_reactions_backspan(P, a_from_R1, ell) ==
    LET b == RSub(ell, a_from_R1)
    IN  [R1 |-> RDiv(RMul(P, b), ell), R2 |-> RDiv(RMul(P, a_from_R1), ell)]

(* Variant: P a b, not divided by the span. *)
point_load_moment_backspan_undivided(P, a_from_R1, ell) == RMul(RMul(P, a_from_R1), RSub(ell, a_from_R1))

point_load_moment_backspan(P, a_from_R1, ell) ==
    LET b == RSub(ell, a_from_R1)
    IN  RDiv(RMul(RMul(P, a_from_R1), b), ell)

(* Variant: the left support pushed down by an overhang load. *)
point_load_reactions_overhang_downward(P, x1, ell) == [R1 |-> RDiv(RMul(P, x1), ell), R2 |-> RDiv(RMul(P, RAdd(ell, x1)), ell)]

point_load_reactions_overhang(P, x1, ell) ==
    [R1 |-> RDiv(RMul(RNeg(P), x1), ell),
     R2 |-> RDiv(RMul(P, RAdd(ell, x1)), ell)]

point_load_hogging_at_R2(P, x1) == RMul(P, x1)

(* Variant: only a negative back span rejected. *)
BackSpanNegative(ell) == RLt(ell, Zero)

BackSpanNotPositive(ell) == RLe(ell, Zero)

(* Variant: the simple-span moment of the back span, without the relief    *)
(* of the overhang.                                                        *)
SaggingUdl_simple_span(R1_total_udl, w_uls_back, ell) == RDiv(RMul(w_uls_back, RSq(ell)), I(8))

SaggingUdl(R1_total_udl, w_uls_back, ell) ==
    IF RLt(Zero, w_uls_back)
    THEN LET x_max_sag == RDiv(R1_total_udl, w_uls_back)
         IN  IF RLt(Zero, x_max_sag) /\ RLt(x_max_sag, ell)
             THEN RMax(RSub(RMul(R1_total_udl, x_max_sag),
                            RDiv(RMul(w_uls_back, RSq(x_max_sag)), I(2))),
                       Zero)
             ELSE RMax(Zero,
                       RSub(RMul(R1_total_udl, ell),
                            RDiv(RMul(w_uls_back, RSq(ell)), I(2))))
    ELSE IF RLt(Zero, R1_total_udl)
         THEN RMax(RMul(R1_total_udl, ell), Zero)
         ELSE Zero

analyse_overhanging(total_span_m, cant_span_m, w_uls_back, w_sls_short_back, w_sls_long_back, w_uls_cant, w_sls_short_cant, w_sls_long_cant, point_loads_back, point_loads_cant, w_G_back, w_psi_lQ_back, w_G_cant, w_psi_lQ_cant) ==
    LET a == cant_span_m
        ell == RSub(total_span_m, a)
        R1_udl_back == RDiv(RMul(w_uls_back, ell), I(2))
        R2_udl_back == RDiv(RMul(w_uls_back, ell), I(2))
        R1_udl_cant == RDiv(RMul(RNeg(w_uls_cant), RSq(a)), RMul(I(2), ell))
        R2_udl_cant ==
            RDiv(RMul(RMul(w_uls_cant, a), RAdd(RMul(I(2), ell), a)),
                 RMul(I(2), ell))
        M_hog_udl_cant == RDiv(RMul(w_uls_cant, RSq(a)), I(2))
        R1_total_udl == RAdd(R1_udl_back, R1_udl_cant)
        R2_total_udl == RAdd(R2_udl_back, R2_udl_cant)
        M_sag_combined_udl == SaggingUdl(R1_total_udl, w_uls_back, ell)
        M_sag_point ==
            SumOver([i \in 1..Len(point_loads_back) |->
                LET pl == point_loads_back[i]
                IN  point_load_moment_backspan(pl.P_uls, pl.a_m, ell)])
        M_hog_point ==
            SumOver([i \in 1..Len(point_loads_cant) |->
                LET pl == point_loads_cant[i]
                IN  point_load_hogging_at_R2(pl.P_uls, pl.a_m)])
        R1_point ==
            RAdd(SumOver([i \in 1..Len(point_loads_back) |->
                     LET pl == point_loads_back[i]
                     IN  point_load_reactions_backspan(pl.P_uls, pl.a_m, ell).R1]),
                 SumOver([i \in 1..Len(point_loads_cant) |->
                     LET pl == point_loads_cant[i]
                     IN  point_load_reactions_overhang(pl.P_uls, pl.a_m, ell).R1]))
        R2_point ==
            RAdd(SumOver([i \in 1..Len(point_loads_back) |->
                     LET pl == point_loads_back[i]
                     IN  point_load_reactions_backspan(pl.P_uls, pl.a_m, ell).R2]),
                 SumOver([i \in 1..Len(point_loads_cant) |->
                     LET pl == point_loads_cant[i]
                     IN  point_load_reactions_overhang(pl.P_uls, pl.a_m, ell).R2]))
        R1_total == RAdd(R1_total_udl, R1_point)
        R2_total == RAdd(R2_total_udl, R2_point)
        M_sagging_total == RAdd(M_sag_combined_udl, M_sag_point)
        M_hogging_total == RAdd(M_hog_udl_cant, M_hog_point)
    IN  IF BackSpanNotPositive(ell)
        THEN ValueError
        ELSE [span_m |-> total_span_m, w_uls |-> w_uls_back,
              w_sls_short |-> w_sls_short_back,
              w_sls_long |-> w_sls_long_back,
              M_star |-> RMax(M_sagging_total, M_hogging_total),
              V_star |-> RMax(RAbs(R1_total), RAbs(R2_total)),
              R_max |-> RMax(RAbs(R1_total), RAbs(R2_total)),
              beam_type |-> OVERHANGING,
              point_loads |-> point_loads_back \o point_loads_cant,
              M_udl |-> RMax(M_sag_combined_udl, M_hog_udl_cant),
              M_point |-> RAdd(M_sag_point, M_hog_point),
              V_udl |-> RMax(RAbs(R1_total_udl), RAbs(R2_total_udl)),
              R_left |-> R1_total, R_right |-> R2_total,
              w_G_back |-> w_G_back, w_psi_lQ_back |-> w_psi_lQ_back,
              w_G_cant |-> w_G_cant, w_psi_lQ_cant |-> w_psi_lQ_cant,
              back_span_m |-> ell, cant_span_m |-> a,
              w_uls_cant |-> w_uls_cant,
              w_sls_short_cant |-> w_sls_short_cant,
              w_sls_long_cant |-> w_sls_long_cant,
              M_sagging |-> M_sagging_total, M_hogging |-> M_hogging_total,
              M_sagging_udl |-> M_sag_combined_udl,
              M_hogging_udl |-> M_hog_udl_cant,
              M_sagging_point |-> M_sag_point,
              M_hogging_point |-> M_hog_point,
              V_at_R2 |-> RAbs(R2_total),
              point_loads_back |-> point_loads_back,
              point_loads_cant |-> point_loads_cant]

(***************************************************************************)
(* beam_analysis.py: deflection formulas.  math.sqrt(3) is irrational; it  *)
(* is replaced by the rational 26/15, which keeps its sign and its place   *)
(* in the formulas.                                                        *)
(***************************************************************************)
SQRT3 == Q(26, 15)

MM(x_m) == RMul(x_m, I(1000))

RPow4(a) == RSq(RSq(a))

StiffnessInvalid(L, E_mpa, Ix_mm4) ==
    RLe(L, Zero) \/ RLe(E_mpa, Zero) \/ RLe(Ix_mm4, Zero)

(* Variant: the distance from the left support taken for b. *)
calc_deflection_point_load_from_left(P_kn, a_m, span_m, E_mpa, Ix_mm4) ==
    LET P_n == RMul(P_kn, I(1000))
        L_mm == MM(span_m)
        a_mm == MM(a_m)
        b_mm == a_mm
    IN  IF StiffnessInvalid(L_mm, E_mpa, Ix_mm4)
        THEN Zero
        ELSE RDiv(RMul(RMul(P_n, b_mm),
                       RSub(RMul(I(3), RSq(L_mm)), RMul(I(4), RSq(b_mm)))),
                  RMul(RMul(I(48), E_mpa), Ix_mm4))

calc_deflection_point_load(P_kn, a_m, span_m, E_mpa, Ix_mm4) ==
    LET P_n == RMul(P_kn, I(1000))
        L_mm == MM(span_m)
        a_mm == MM(a_m)
        b_mm == RMin(a_mm, RSub(L_mm, a_mm))
    IN  IF StiffnessInvalid(L_mm, E_mpa, Ix_mm4)
        THEN Zero
        ELSE RDiv(RMul(RMul(P_n, b_mm),
                       RSub(RMul(I(3), RSq(L_mm)), RMul(I(4), RSq(b_mm)))),
                  RMul(RMul(I(48), E_mpa), Ix_mm4))

calc_deflection(w_kn_per_m, span_m, E_mpa, Ix_mm4) ==
    LET L_mm == MM(span_m)
    IN  RDiv(RMul(RMul(I(5), w_kn_per_m), RPow4(L_mm)),
             RMul(RMul(I(384), E_mpa), Ix_mm4))

calc_total_deflection(w_kn_per_m, span_m, E_mpa, Ix_mm4, point_loads) ==
    RAdd(calc_deflection(w_kn_per_m, span_m, E_mpa, Ix_mm4),
         SumOver([i \in 1..Len(point_loads) |->
             LET pl == point_loads[i]
             IN  calc_deflection_point_load(pl.P_sls, pl.a_m, span_m, E_mpa, Ix_mm4)]))

calc_deflection_overhang_backspan_udl(w_kn_per_m, ell_m, E_mpa, Ix_mm4) ==
    LET L == MM(ell_m)
    IN  IF StiffnessInvalid(L, E_mpa, Ix_mm4)
        THEN Zero
        ELSE RDiv(RMul(RMul(I(5), w_kn_per_m), RPow4(L)),
                  RMul(RMul(I(384), E_mpa), Ix_mm4))

calc_deflection_overhang_cantudl_between(w_kn_per_m, a_m, ell_m, E_mpa, Ix_mm4) ==
    LET a == MM(a_m)
        L == MM(ell_m)
    IN  IF StiffnessInvalid(L, E_mpa, Ix_mm4) \/ RLe(a, Zero)
        THEN Zero
        ELSE RDiv(RMul(RMul(w_kn_per_m, RSq(a)), RSq(L)),
                  RMul(RMul(RMul(I(18), SQRT3), E_mpa), Ix_mm4))

calc_deflection_overhang_cantudl_tip(w_kn_per_m, a_m, ell_m, E_mpa, Ix_mm4) ==
    LET a == MM(a_m)
        L == MM(ell_m)
    IN  IF StiffnessInvalid(L, E_mpa, Ix_mm4) \/ RLe(a, Zero)
        THEN Zero
        ELSE RDiv(RMul(RMul(w_kn_per_m, RMul(a, RSq(a))),
                       RAdd(RMul(I(4), L), RMul(I(3), a))),
                  RMul(RMul(I(24), E_mpa), Ix_mm4))

calc_deflection_overhang_pl_cant_between(P_kn, x1_m, ell_m, E_mpa, Ix_mm4) ==
    LET P == RMul(P_kn, I(1000))
        x1 == MM(x1_m)
        L == MM(ell_m)
    IN  IF StiffnessInvalid(L, E_mpa, Ix_mm4) \/ RLe(x1, Zero)
        THEN Zero
        ELSE RDiv(RMul(RMul(P, x1), RSq(L)),
                  RMul(RMul(RMul(I(9), SQRT3), E_mpa), Ix_mm4))

calc_deflection_overhang_pl_cant_tip(P_kn, x1_m, ell_m, E_mpa, Ix_mm4) ==
    LET P == RMul(P_kn, I(1000))
        x1 == MM(x1_m)
        L == MM(ell_m)
    IN  IF StiffnessInvalid(L, E_mpa, Ix_mm4) \/ RLe(x1, Zero)
        THEN Zero
        ELSE RDiv(RMul(RMul(P, RSq(x1)), RAdd(L, x1)),
                  RMul(RMul(I(3), E_mpa), Ix_mm4))

calc_deflection_overhang_pl_back_between(P_kn, a_from_R1_m, ell_m, E_mpa, Ix_mm4) ==
    calc_deflection_point_load(P_kn, a_from_R1_m, ell_m, E_mpa, Ix_mm4)

(* Variant: the net deflection returned with its sign. *)
SignedDeflection(d) == d

NetDeflection(d) == RMax(d, Zero)

calc_total_deflection_overhang_between(w_back, w_cant, ell_m, a_m, E_mpa, Ix_mm4, point_loads_back, point_loads_cant) ==
    LET d0 == calc_deflection_overhang_backspan_udl(w_back, ell_m, E_mpa,
                                                    Ix_mm4)
        d1 == RSub(d0, calc_deflection_overhang_cantudl_between(
                           w_cant, a_m, ell_m, E_mpa, Ix_mm4))
        d2 == RAdd(d1, SumOver([i \in 1..Len(point_loads_back) |->
                  LET pl == point_loads_back[i]
                  IN  calc_deflection_overhang_pl_back_between(
                          pl.P_sls, pl.a_m, ell_m, E_mpa, Ix_mm4)]))
        d3 == RSub(d2, SumOver([i \in 1..Len(point_loads_cant) |->
                  LET pl == point_loads_cant[i]
                  IN  calc_deflection_overhang_pl_cant_between(
                          pl.P_sls, pl.a_m, ell_m, E_mpa, Ix_mm4)]))
    IN  NetDeflection(d3)

calc_total_deflection_overhang_tip(w_cant, a_m, ell_m, E_mpa, Ix_mm4, point_loads_cant) ==
    RAdd(calc_deflection_overhang_cantudl_tip(w_cant, a_m, ell_m, E_mpa,
                                              Ix_mm4),
         SumOver([i \in 1..Len(point_loads_cant) |->
             LET pl == point_loads_cant[i]
             IN  calc_deflection_overhang_pl_cant_tip(pl.P_sls, pl.a_m, ell_m, E_mpa, Ix_mm4)]))

(***************************************************************************)
(* design_checks.py.  The details texts that format numbers are            *)
(* represented by their fixed wording.                                     *)
(***************************************************************************)
MANUAL_SHEAR ==
    "Shear data not available for this grade -- MANUAL CHECK REQUIRED"

MANUAL_BEARING ==
    "Bearing data not available for this grade -- MANUAL CHECK REQUIRED"

UPLIFT_DETAILS == "R1 is in UPLIFT -- hold-down connection required"

CheckResult(name, demand, capacity, utilisation_, passed, unit, details) ==
    [name |-> name, demand |-> demand, capacity |-> capacity,
     utilisation |-> utilisation_, passed |-> passed, unit |-> unit,
     details |-> details]

(* Variant: the division made without looking at the capacity. *)
utilisation_unguarded(demand, capacity) ==
    RMul(RDiv(demand, capacity), I(100))

utilisation(demand, capacity) ==
    IF RLt(Zero, capacity)
    THEN RMul(RDiv(demand, capacity), I(100))
    ELSE I(999)

(* Variant: the percentage compared with 1 instead of 100. *)
passes_fraction(util) == RLe(util, I(1))

(* Variant: a utilisation of exactly 100 fails. *)
passes_strict(util) == RLt(util, I(100))

passes(util) == RLe(util, I(100))

(* A result whose utilisation and verdict come from demand and capacity. *)
Rated(name, demand, capacity, unit, details) ==
    LET util == utilisation(demand, capacity)
    IN  CheckResult(name, demand, capacity, util, passes(util), unit,
                    details)

check_bending(M_star_knm, section, grade, k1, k6, k9, k12) ==
    LET phi_Mx ==
            RMul(RMul(RMul(RMul(RMul(RMul(RMul(grade.phi, k1), K4_DRY), k6),
                                k9), k12), grade.fb), Zx(section))
    IN  Rated("Bending", M_star_knm, RDiv(phi_Mx, I(1000000)), "kNm",
              "phi, k1, k4, k6, k9, k12, f'b, Zx")

(* Variant: the shear capacity computed without looking for missing data. *)
check_shear_unguarded(V_star_kn, section, grade, k1, k6) ==
    LET As == shear_area(section)
        phi_Vs ==
            RDiv(RMul(RMul(RMul(RMul(RMul(grade.phi, k1), K4_DRY), k6),
                           grade.fs), As), I(1000))
    IN  Rated("Shear", V_star_kn, phi_Vs, "kN", "phi, k1, k4, k6, f's, As")

check_shear(V_star_kn, section, grade, k1, k6) ==
    IF grade.fs = None
    THEN CheckResult("Shear", V_star_kn, Zero, I(999), FALSE, "kN",
                     MANUAL_SHEAR)
    ELSE LET As == shear_area(section)
             phi_Vs ==
                 RDiv(RMul(RMul(RMul(RMul(RMul(grade.phi, k1), K4_DRY), k6),
                                grade.fs), As), I(1000))
         IN  Rated("Shear", V_star_kn, phi_Vs, "kN",
                   "phi, k1, k4, k6, f's, As")

BearingCapacity(grade, section, k1, bearing_length_mm, k6, k7) ==
    RDiv(RMul(RMul(RMul(RMul(RMul(RMul(grade.phi, k1), K4_DRY), k6), k7),
                   grade.fp), bearing_area(section, bearing_length_mm)),
         I(1000))

check_bearing(R_max_kn, section, grade, k1, bearing_length_mm, k6, k7) ==
    IF grade.fp = None
    THEN CheckResult("Bearing", R_max_kn, Zero, I(999), FALSE, "kN",
                     MANUAL_BEARING)
    ELSE Rated("Bearing", R_max_kn,
               BearingCapacity(grade, section, k1, bearing_length_mm, k6,
                               k7),
               "kN", "phi, k1, k4, k6, k7, f'p, Ap")

HasBreakdown(w_G, w_psi_lQ) == RLt(Zero, w_G) \/ RLt(Zero, w_psi_lQ)

(* Variant: the creep factor applied to dead and live deflection alike. *)
creep_all(k2, delta_G, delta_psiQ) == RMul(k2, RAdd(delta_G, delta_psiQ))

creep_split(k2, delta_G, delta_psiQ) == RAdd(RMul(k2, delta_G), delta_psiQ)

(* Variant: the creep factor left out. *)
creep_none(k2, delta_long_elastic) == delta_long_elastic

creep_whole(k2, delta_long_elastic) == RMul(k2, delta_long_elastic)

allowable_deflection(span_m, deflection_limit) ==
    RDiv(RMul(span_m, I(1000)), deflection_limit)

check_deflection(span_m, section, grade, w_sls_short_, w_sls_long_, deflection_limit, point_loads, w_G, w_psi_lQ) ==
    LET E == grade.E
        k2 == grade.k2
        Ix_ == Ix(section)
        delta_short ==
            calc_total_deflection(w_sls_short_, span_m, E, Ix_, point_loads)
        delta_long ==
            IF HasBreakdown(w_G, w_psi_lQ)
            THEN creep_split(k2,
                     calc_total_deflection(w_G, span_m, E, Ix_, <<>>),
                     calc_total_deflection(w_psi_lQ, span_m, E, Ix_,
                                           point_loads))
            ELSE creep_whole(k2,
                     calc_total_deflection(w_sls_long_, span_m, E, Ix_,
                                           point_loads))
        allowable == allowable_deflection(span_m, deflection_limit)
    IN  << Rated("Deflection (short-term)", delta_short, allowable, "mm",
                 "E, Ix, w_sls_short (G+0.7Q), delta, allow=L/limit"),
           Rated("Deflection (long-term)", delta_long, allowable, "mm",
                 "E, Ix, k2, delta_LT = k2*delta(G) + delta(0.4Q)") >>

check_deflection_overhanging(beam_actions, section, grade, deflection_limit, deflection_limit_tip) ==
    LET E == grade.E
        k2 == grade.k2
        Ix_ == Ix(section)
        ell == beam_actions.back_span_m
        a == beam_actions.cant_span_m
        pl_back == beam_actions.point_loads_back
        pl_cant == beam_actions.point_loads_cant
        w_G_back == beam_actions.w_G_back
        w_psi_lQ_back == beam_actions.w_psi_lQ_back
        w_G_cant == beam_actions.w_G_cant
        w_psi_lQ_cant == beam_actions.w_psi_lQ_cant
        allowable_back == allowable_deflection(ell, deflection_limit)
        d_back_short ==
            calc_total_deflection_overhang_between(
                beam_actions.w_sls_short, beam_actions.w_sls_short_cant,
                ell, a, E, Ix_, pl_back, pl_cant)
        d_back_long ==
            IF HasBreakdown(w_G_back, w_psi_lQ_back)
               \/ HasBreakdown(w_G_cant, w_psi_lQ_cant)
            THEN creep_split(k2,
                     calc_total_deflection_overhang_between(
                         w_G_back, w_G_cant, ell, a, E, Ix_, <<>>, <<>>),
                     calc_total_deflection_overhang_between(
                         w_psi_lQ_back, w_psi_lQ_cant, ell, a, E, Ix_,
                         pl_back, pl_cant))
            ELSE creep_whole(k2,
                     calc_total_deflection_overhang_between(
                         beam_actions.w_sls_long,
                         beam_actions.w_sls_long_cant,
                         ell, a, E, Ix_, pl_back, pl_cant))
        allowable_tip == allowable_deflection(a, deflection_limit_tip)
        d_tip_short ==
            calc_total_deflection_overhang_tip(
                beam_actions.w_sls_short_cant, a, ell, E, Ix_, pl_cant)
        d_tip_long ==
            IF HasBreakdown(w_G_cant, w_psi_lQ_cant)
            THEN creep_split(k2,
                     calc_total_deflection_overhang_tip(
                         w_G_cant, a, ell, E, Ix_, <<>>),
                     calc_total_deflection_overhang_tip(
                         w_psi_lQ_cant, a, ell, E, Ix_, pl_cant))
            ELSE creep_whole(k2,
                     calc_total_deflection_overhang_tip(
                         beam_actions.w_sls_long_cant, a, ell, E, Ix_,
                         pl_cant))
    IN  << Rated("Defl. back span (ST)", d_back_short, allowable_back, "mm",
                 "Between supports, short-term"),
           Rated("Defl. back span (LT)", d_back_long, allowable_back, "mm",
                 "Between supports, LT: k2*d(G)+d(0.4Q)"),
           Rated("Defl. overhang (ST)", d_tip_short, allowable_tip, "mm",
                 "At free end, short-term"),
           Rated("Defl. overhang (LT)", d_tip_long, allowable_tip, "mm",
                 "At free end, LT: k2*d(G)+d(0.4Q)") >>

(* Variant: a zero reaction counted as uplift. *)
InUplift_inclusive(R1) == RLe(R1, Zero)

InUplift(R1) == RLt(R1, Zero)

(* Variant: only a zero counts as false, None does not. *)
Truthy_not_zero(x) == x # Zero

Truthy(x) == x # None /\ x # Zero

check_bearing_overhanging(beam_actions, section, grade, k1, bearing_length_mm, k6, k7) ==
    LET R1 == beam_actions.R_left
        R2 == beam_actions.R_right
        result_R2 ==
            [check_bearing(RAbs(R2), section, grade, k1, bearing_length_mm,
                           k6, k7) EXCEPT !.name = "Bearing (R2)"]
        cap ==
            IF Truthy(grade.fp)
            THEN BearingCapacity(grade, section, k1, bearing_length_mm,
                                 k6, k7)
            ELSE Zero
        result_R1 ==
            IF InUplift(R1)
            THEN CheckResult("Bearing (R1)", Zero, cap, Zero, TRUE, "kN",
                             UPLIFT_DETAILS)
            ELSE [check_bearing(RAbs(R1), section, grade, k1,
                                bearing_length_mm, k6, k7)
                     EXCEPT !.name = "Bearing (R1)"]
    IN  << result_R1, result_R2 >>

(* Variant: both bending checks of an overhanging beam take the governing *)
(* moment as demand.                                                      *)
run_all_checks_governing(beam_actions, section, grade, k1, bearing_length_mm, k6, k7, k9, k12, deflection_limit, deflection_limit_tip) ==
    IF beam_actions.beam_type = OVERHANGING
    THEN << [check_bending(beam_actions.M_star, section, grade, k1, k6,
                           k9, k12) EXCEPT !.name = "Bending (sagging)"],
            [check_bending(beam_actions.M_star, section, grade, k1, k6,
                           k9, k12) EXCEPT !.name = "Bending (hogging)"],
            check_shear(beam_actions.V_star, section, grade, k1, k6) >>
         \o check_bearing_overhanging(beam_actions, section, grade, k1,
                                      bearing_length_mm, k6, k7)
         \o check_deflection_overhanging(beam_actions, section, grade,
                                         deflection_limit,
                                         deflection_limit_tip)
    ELSE << check_bending(beam_actions.M_star, section, grade, k1, k6, k9,
                          k12),
            check_shear(beam_actions.V_star, section, grade, k1, k6),
            check_bearing(beam_actions.R_max, section, grade, k1,
                          bearing_length_mm, k6, k7) >>
         \o check_deflection(beam_actions.span_m, section, grade,
                             beam_actions.w_sls_short,
                             beam_actions.w_sls_long, deflection_limit,
                             beam_actions.point_loads,
                             beam_actions.w_G_back,
                             beam_actions.w_psi_lQ_back)

run_all_checks(beam_actions, section, grade, k1, bearing_length_mm, k6, k7, k9, k12, deflection_limit, deflection_limit_tip) ==
    IF beam_actions.beam_type = OVERHANGING
    THEN << [check_bending(beam_actions.M_sagging, section, grade, k1, k6,
                           k9, k12) EXCEPT !.name = "Bending (sagging)"],
            [check_bending(beam_actions.M_hogging, section, grade, k1, k6,
                           k9, k12) EXCEPT !.name = "Bending (hogging)"],
            check_shear(beam_actions.V_star, section, grade, k1, k6) >>
         \o check_bearing_overhanging(beam_actions, section, grade, k1,
                                      bearing_length_mm, k6, k7)
         \o check_deflection_overhanging(beam_actions, section, grade,
                                         deflection_limit,
                                         deflection_limit_tip)
    ELSE << check_bending(beam_actions.M_star, section, grade, k1, k6, k9,
                          k12),
            check_shear(beam_actions.V_star, section, grade, k1, k6),
            check_bearing(beam_actions.R_max, section, grade, k1,
                          bearing_length_mm, k6, k7) >>
         \o check_deflection(beam_actions.span_m, section, grade,
                             beam_actions.w_sls_short,
                             beam_actions.w_sls_long, deflection_limit,
                             beam_actions.point_loads,
                             beam_actions.w_G_back,
                             beam_actions.w_psi_lQ_back)

(***************************************************************************)
(* The program as a state machine.  One run takes a set of inputs through  *)
(* the analysis and the design checks.  caller tells who drives the core:  *)
(*   "app"    the application run main(), which guards and filters its     *)
(*            widget values before it calls the analysis;                  *)
(*   "api"    a direct call of the analysis routine with inputs that meet  *)
(*            the input contract, except that any pair of span and         *)
(*            overhang length may be passed;                               *)
(*   "record" a BeamActions record constructed by hand for an overhanging  *)
(*            beam whose back span is zero, and passed to run_all_checks,  *)
(*            which accepts any record;                                    *)
(*   "unit"   a direct call of one function: a strength check on two       *)
(*            demands, compute_line_loads, TimberSection or get_grade;     *)
(*            ret holds the arguments and what the call returned.          *)
(* report holds what main() shows after the checks: the overall flag, the  *)
(* headline utilisation, the verdict banner, the hold-down warning and the *)
(* labels of the governing load combinations.                              *)
(***************************************************************************)
VARIABLES pc, caller, inp, call, beam, chk, results, err, report, ret

(* The session of the application and the store of database.py, which the  *)
(* design run leaves alone; they have their own specifications below.      *)
VARIABLES beams, active_beam_idx, session_state, rendered, stale_on_rerun

VARIABLES users, projects, beam_rows, sqlite_sequence, db_result

core_vars == << pc, caller, inp, call, beam, chk, results, err, report, ret >>

session_vars == << beams, active_beam_idx, session_state, rendered, stale_on_rerun >>

store_vars == << users, projects, beam_rows, sqlite_sequence, db_result >>

vars == << core_vars, session_vars, store_vars >>

aside == << session_vars, store_vars >>

Lengths == { I(k) : k \in 0..MaxSpan }

PointLoads == { PointLoad(I(3), I(2), a) : a \in Lengths }

PointLoadListsSS ==
    UNION { [1..n -> PointLoads] : n \in 0..MAX_POINT_LOADS_SS }

PointLoadListsOverhang ==
    UNION { [1..n -> PointLoads] : n \in 0..MAX_POINT_LOADS_OVERHANG }

DeadLoads == { Zero, I(1) }

LiveLoads == { Zero, I(1) }

(* The fields a simply supported beam does not use are held at zero. *)
SimplySupportedInputs ==
    [beam_type : {SIMPLY_SUPPORTED},
     span_m : Lengths, cant_span_m : {Zero},
     G_back : DeadLoads, Q_back : LiveLoads,
     G_cant : {Zero}, Q_cant : {Zero},
     breakdown : BOOLEAN, has_entries : BOOLEAN,
     point_loads : PointLoadListsSS,
     point_loads_back : {<<>>}, point_loads_cant : {<<>>}]

OverhangingInputs ==
    [beam_type : {OVERHANGING},
     span_m : Lengths, cant_span_m : Lengths,
     G_back : DeadLoads, Q_back : LiveLoads,
     G_cant : DeadLoads, Q_cant : LiveLoads,
     breakdown : BOOLEAN, has_entries : BOOLEAN,
     point_loads : {<<>>},
     point_loads_back : PointLoadListsOverhang,
     point_loads_cant : PointLoadListsOverhang]

Inputs == SimplySupportedInputs \cup OverhangingInputs

AllValid(pls, span_m) ==
    \A i \in 1..Len(pls) : PointLoad_validate(pls[i], span_m)

AllValidOverhang(pls, cant_span_m) ==
    \A i \in 1..Len(pls) : PointLoadOverhang_validate(pls[i], cant_span_m)

(* Widget ranges of main(): spans and overhang above zero, self-weight in G. *)
AppInput(x) ==
    /\ RLt(Zero, x.span_m)
    /\ x.beam_type = OVERHANGING => RLt(Zero, x.cant_span_m)
    /\ RLt(Zero, x.G_back)
    /\ x.beam_type = OVERHANGING => RLt(Zero, x.G_cant)
    /\ x.breakdown

(* Input contract of the core: every point load within its span. *)
ApiInput(x) ==
    /\ x.has_entries
    /\ AllValid(x.point_loads, x.span_m)
    /\ AllValid(x.point_loads_back, RSub(x.span_m, x.cant_span_m))
    /\ AllValidOverhang(x.point_loads_cant, x.cant_span_m)

(* A hand-built record: overhang as long as the beam, back span zero. *)
RecordInput(x) ==
    /\ x.has_entries
    /\ x.beam_type = OVERHANGING
    /\ x.cant_span_m = x.span_m
    /\ AllValid(x.point_loads_back, RSub(x.span_m, x.cant_span_m))
    /\ AllValidOverhang(x.point_loads_cant, x.cant_span_m)

(* A direct call of the strength checks reads no beam input. *)
UnitInput(x) ==
    /\ x.beam_type = SIMPLY_SUPPORTED
    /\ x.span_m = Zero
    /\ x.G_back = Zero /\ x.Q_back = Zero
    /\ ~x.breakdown /\ ~x.has_entries
    /\ x.point_loads = <<>>

NoCall == [beam_type |-> "none"]

NoBeam == [beam_type |-> "none"]

NoChk == [grade_name |-> "none"]

NoReport == [headline |-> "none"]

NoRet == [fn |-> "none"]

(* The arguments of the analysis call made from line loads and lists. *)
Arguments(x, pls, pls_back, pls_cant) ==
    LET back == LineLoads(x.G_back, x.Q_back)
        cant == LineLoads(x.G_cant, x.Q_cant)
    IN  [beam_type |-> x.beam_type,
         total_span_m |-> x.span_m, cant_span_m |-> x.cant_span_m,
         w_uls |-> w_uls(back), w_sls_short |-> w_sls_short(back),
         w_sls_long |-> w_sls_long(back),
         w_uls_cant |-> w_uls(cant), w_sls_short_cant |-> w_sls_short(cant),
         w_sls_long_cant |-> w_sls_long(cant),
         point_loads |-> pls, point_loads_back |-> pls_back,
         point_loads_cant |-> pls_cant,
         w_G_back |-> IF x.breakdown THEN back.G ELSE Zero,
         w_psi_lQ_back |->
             IF x.breakdown THEN RMul(Q(4, 10), back.Q) ELSE Zero,
         w_G_cant |-> IF x.breakdown THEN cant.G ELSE Zero,
         w_psi_lQ_cant |->
             IF x.breakdown THEN RMul(Q(4, 10), cant.Q) ELSE Zero]

(* The session and the store as they stand while a design run is followed. *)
SessionIdle ==
    /\ beams = <<>>
    /\ active_beam_idx = 0
    /\ session_state = <<>>
    /\ rendered = [op |-> "none"]
    /\ stale_on_rerun = FALSE

StoreIdle ==
    /\ users = {}
    /\ projects = {}
    /\ beam_rows = {}
    /\ sqlite_sequence = <<>>
    /\ db_result = "none"

Init ==
    /\ caller \in {"app", "api", "record", "unit"}
    /\ inp \in Inputs
    /\ caller = "app" => AppInput(inp)
    /\ caller = "api" => ApiInput(inp)
    /\ caller = "record" => RecordInput(inp)
    /\ caller = "unit" => UnitInput(inp)
    /\ pc = CASE caller = "app" -> "start"
              [] caller = "unit" -> "strength"
              [] OTHER -> "ready"
    /\ call = IF caller \in {"app", "unit"}
              THEN NoCall
              ELSE Arguments(inp, inp.point_loads, inp.point_loads_back,
                             inp.point_loads_cant)
    /\ beam = NoBeam
    /\ chk = NoChk
    /\ results = <<>>
    /\ err = "none"
    /\ report = NoReport
    /\ ret = NoRet
    /\ SessionIdle
    /\ StoreIdle

GradeNames == DOMAIN TIMBER_GRADES

(* Three grades of the table: sawn timber, LVL, and the grade without *)
(* shear and bearing data.                                           *)
ModelGrades == { "SG8", "hySPAN", "Macrocarpa" }

(* The sections and factor values run_all_checks is called with: a deep *)
(* section under modified k7, k9 and k12, and a small section under a   *)
(* zero k6, which makes every strength capacity zero.                   *)
Designs ==
    { [section |-> TimberSection(I(120), I(200)),
       f |-> [k1 |-> K1_FACTORS["medium_term"], k6 |-> K6_DEFAULT,
              k7 |-> Q(115, 100), k9 |-> Q(12, 10), k12 |-> Q(1, 2),
              bearing_length_mm |-> I(50), deflection_limit |-> I(300),
              deflection_limit_tip |-> I(150)]],
      [section |-> TimberSection(I(60), I(100)),
       f |-> [k1 |-> K1_FACTORS["short_term"], k6 |-> Zero, k7 |-> I(1),
              k9 |-> I(1), k12 |-> I(1), bearing_length_mm |-> I(10),
              deflection_limit |-> I(100),
              deflection_limit_tip |-> I(100)]] }

BeamNumbers(b) ==
    { b.M_star, b.V_star, b.R_max, b.M_udl, b.M_point, b.V_udl, b.R_left,
      b.R_right, b.M_sagging, b.M_hogging, b.M_sagging_udl, b.M_hogging_udl,
      b.M_sagging_point, b.M_hogging_point, b.V_at_R2 }

ResultNumbers(rs) ==
    UNION { { rs[i].demand, rs[i].capacity, rs[i].utilisation } :
            i \in 1..Len(rs) }

(***************************************************************************)
(* main(), from the span input to the guard on the load entries: the run   *)
(* stops on a non-positive back span or an empty load panel; point loads   *)
(* that fail their validate() are left out of the lists.                   *)
(***************************************************************************)
AppCollectInputs ==
    /\ pc = "start" /\ caller = "app"
    /\ LET is_overhanging == inp.beam_type = OVERHANGING
           back_span_m == IF is_overhanging
                          THEN RSub(inp.span_m, inp.cant_span_m)
                          ELSE inp.span_m
           point_load_list ==
               SelectSeq(inp.point_loads,
                         LAMBDA pl : PointLoad_validate(pl, inp.span_m))
           point_load_list_back ==
               SelectSeq(inp.point_loads_back,
                         LAMBDA pl : PointLoad_validate(pl, back_span_m))
           point_load_list_cant ==
               SelectSeq(inp.point_loads_cant,
                         LAMBDA pl : PointLoadOverhang_validate(
                                         pl, inp.cant_span_m))
       IN  IF (is_overhanging /\ RLe(back_span_m, Zero)) \/ ~inp.has_entries
           THEN /\ pc' = "stopped"
                /\ call' = call
           ELSE /\ pc' = "ready"
                /\ call' = Arguments(inp, point_load_list,
                                     point_load_list_back,
                                     point_load_list_cant)
    /\ UNCHANGED << caller, inp, beam, chk, results, err, report, ret >>
    /\ UNCHANGED aside

Finish(r) ==
    IF IsValueError(r)
    THEN /\ pc' = "raised" /\ err' = "ValueError" /\ beam' = NoBeam
    ELSE IF Raised \in BeamNumbers(r)
         THEN /\ pc' = "raised" /\ err' = "ZeroDivisionError"
              /\ beam' = NoBeam
         ELSE /\ pc' = "analysed" /\ err' = err /\ beam' = r

AnalyseSimplySupported ==
    /\ pc = "ready" /\ caller \in {"app", "api"}
    /\ call.beam_type = SIMPLY_SUPPORTED
    /\ Finish(analyse_simply_supported(
                  call.total_span_m, call.w_uls, call.w_sls_short,
                  call.w_sls_long, call.point_loads, call.w_G_back,
                  call.w_psi_lQ_back))
    /\ UNCHANGED << caller, inp, call, chk, results, report, ret >>
    /\ UNCHANGED aside

AnalyseOverhanging ==
    /\ pc = "ready" /\ caller \in {"app", "api"}
    /\ call.beam_type = OVERHANGING
    /\ Finish(analyse_overhanging(
                  call.total_span_m, call.cant_span_m, call.w_uls,
                  call.w_sls_short, call.w_sls_long, call.w_uls_cant,
                  call.w_sls_short_cant, call.w_sls_long_cant,
                  call.point_loads_back, call.point_loads_cant,
                  call.w_G_back, call.w_psi_lQ_back, call.w_G_cant,
                  call.w_psi_lQ_cant))
    /\ UNCHANGED << caller, inp, call, chk, results, report, ret >>
    /\ UNCHANGED aside

(* A BeamActions dataclass filled in by hand for an overhanging beam. *)
BuildBeamActions ==
    /\ pc = "ready" /\ caller = "record"
    /\ beam' = [span_m |-> call.total_span_m, w_uls |-> call.w_uls,
                  w_sls_short |-> call.w_sls_short,
                  w_sls_long |-> call.w_sls_long,
                  M_star |-> Zero, V_star |-> I(1), R_max |-> I(1),
                  beam_type |-> OVERHANGING,
                  R_left |-> Zero, R_right |-> I(1),
                  w_G_back |-> call.w_G_back,
                  w_psi_lQ_back |-> call.w_psi_lQ_back,
                  w_G_cant |-> call.w_G_cant,
                  w_psi_lQ_cant |-> call.w_psi_lQ_cant,
                  back_span_m |-> RSub(call.total_span_m, call.cant_span_m),
                  cant_span_m |-> call.cant_span_m,
                  w_uls_cant |-> call.w_uls_cant,
                  w_sls_short_cant |-> call.w_sls_short_cant,
                  w_sls_long_cant |-> call.w_sls_long_cant,
                  point_loads_back |-> call.point_loads_back,
                  point_loads_cant |-> call.point_loads_cant]
                 @@ BeamActionsDefaults
    /\ pc' = "analysed"
    /\ UNCHANGED << caller, inp, call, chk, results, err, report, ret >>
    /\ UNCHANGED aside

(* main() after run_all_checks: the overall flag, the headline utilisation, *)
(* the verdict banner and the hold-down warning.                           *)
(* Variant: one passing result is enough. *)
all_passed_any(rs) == \E i \in 1..Len(rs) : rs[i].passed

all_passed(rs) == \A i \in 1..Len(rs) : rs[i].passed

RECURSIVE MaxOver(_)
MaxOver(s) == IF Len(s) = 1 THEN Head(s) ELSE RMax(Head(s), MaxOver(Tail(s)))

max_util(rs) == MaxOver([i \in 1..Len(rs) |-> rs[i].utilisation])

Headline(all_passed_) == IF all_passed_ THEN "DESIGN ADEQUATE" ELSE "DESIGN INADEQUATE"

(* Variant: the warning also shown for a left reaction of zero. *)
UpliftWarning_inclusive(is_overhanging, R_left) == is_overhanging /\ RLe(R_left, Zero)

UpliftWarning(is_overhanging, R_left) == is_overhanging /\ RLt(R_left, Zero)

Report(rs) ==
    [all_passed |-> all_passed(rs), max_util |-> max_util(rs),
     headline |-> Headline(all_passed(rs)),
     uplift_warning |-> UpliftWarning(beam.beam_type = OVERHANGING,
                                      beam.R_left),
     uls_combo_label |-> uls_combo_label(LineLoads(inp.G_back, inp.Q_back)),
     uls_combo_label_cant |->
         IF beam.beam_type = OVERHANGING
         THEN uls_combo_label(LineLoads(inp.G_cant, inp.Q_cant))
         ELSE "none"]

Return(rs) ==
    IF Raised \in ResultNumbers(rs)
    THEN /\ pc' = "raised" /\ err' = "ZeroDivisionError" /\ results' = <<>>
         /\ report' = report
    ELSE /\ pc' = "checked" /\ err' = err /\ results' = rs
         /\ report' = IF caller = "app" THEN Report(rs) ELSE report

(* The k9 widget of main(): locked to 1.0 for LVL and glulam grades. *)
k9_widget(grade_name, entered) ==
    IF is_lvl_grade(grade_name) \/ is_glulam_grade(grade_name)
    THEN I(1)
    ELSE entered

(* The k9 run_all_checks is called with: main() passes the widget's value, *)
(* a direct call the value it was given.                                   *)
k9_passed(grade_name, entered) ==
    IF caller = "app" THEN k9_widget(grade_name, entered) ELSE entered

RunAllChecks ==
    /\ pc = "analysed"
    /\ \E grade_name \in ModelGrades, design \in Designs :
         /\ chk' = [grade_name |-> grade_name, section |-> design.section,
                    f |-> [design.f EXCEPT
                              !.k9 = k9_passed(grade_name, design.f.k9)],
                    k9_entered |-> design.f.k9]
         /\ Return(run_all_checks(
                       beam, design.section, TIMBER_GRADES[grade_name],
                       design.f.k1, design.f.bearing_length_mm, design.f.k6,
                       design.f.k7, k9_passed(grade_name, design.f.k9),
                       design.f.k12,
                       design.f.deflection_limit,
                       design.f.deflection_limit_tip))
    /\ UNCHANGED << caller, inp, call, beam, ret >>
    /\ UNCHANGED aside

(* One of the three strength checks called directly, twice, on a pair of   *)
(* demands in ascending order and the same section, grade and factors.     *)
StrengthChecks == { "Bending", "Shear", "Bearing" }

StrengthCheck(kind, demand, design, grade) ==
    CASE kind = "Bending" ->
             check_bending(demand, design.section, grade, design.f.k1,
                           design.f.k6, design.f.k9, design.f.k12)
      [] kind = "Shear" ->
             check_shear(demand, design.section, grade, design.f.k1,
                         design.f.k6)
      [] kind = "Bearing" ->
             check_bearing(demand, design.section, grade, design.f.k1,
                           design.f.bearing_length_mm, design.f.k6,
                           design.f.k7)

(* Demands below, at and above the capacity the check works out. *)
Demands(capacity) ==
    { RNeg(I(1)), Zero, I(1), RDiv(capacity, I(2)), capacity,
      RMul(capacity, I(2)) }
        \ { Raised }

CheckStrength ==
    /\ pc = "strength" /\ caller = "unit"
    /\ \E kind \in StrengthChecks, grade_name \in ModelGrades,
          design \in Designs :
         \E d1, d2 \in Demands(StrengthCheck(kind, Zero, design,
                                 TIMBER_GRADES[grade_name]).capacity) :
           /\ RLe(d1, d2)
           /\ results' = << StrengthCheck(kind, d1, design,
                                          TIMBER_GRADES[grade_name]),
                            StrengthCheck(kind, d2, design,
                                          TIMBER_GRADES[grade_name]) >>
    /\ pc' = "rated"
    /\ UNCHANGED << caller, inp, call, beam, chk, err, report, ret >>
    /\ UNCHANGED aside

(* compute_line_loads called directly on a list of load entries and the    *)
(* self-weight of a section; ret keeps the list as it is after the call.   *)
LoadEntries ==
    { LoadEntry("Roof", Q(1, 2), Q(1, 4), Q(6, 10)),
      LoadEntry("Mid Floor", Q(1, 2), Q(15, 10), I(2)),
      LoadEntry("First Floor Wall", Q(4, 10), Zero, I(3)) }

EntryLists == UNION { [1..n -> LoadEntries] : n \in 0..MaxEntries }

ComputeLineLoads ==
    /\ pc = "strength" /\ caller = "unit"
    /\ \E entries \in EntryLists, design \in Designs,
          grade_name \in ModelGrades :
         ret' = [fn |-> "compute_line_loads", entries |-> entries,
                 b_mm |-> design.section.b, d_mm |-> design.section.d,
                 density |-> TIMBER_GRADES[grade_name].density,
                 value |-> compute_line_loads(
                               StructuredLoads(entries),
                               calc_self_weight(
                                   design.section.b, design.section.d,
                                   TIMBER_GRADES[grade_name].density))]
    /\ pc' = "returned"
    /\ UNCHANGED << caller, inp, call, beam, chk, results, err, report >>
    /\ UNCHANGED aside

(* TimberSection(b, d) constructed from any pair of dimensions. *)
Dimensions == { RNeg(I(45)), Zero, I(45), I(90) }

ConstructSection ==
    /\ pc = "strength" /\ caller = "unit"
    /\ \E width_mm \in Dimensions, depth_mm \in Dimensions :
         ret' = [fn |-> "TimberSection", width_mm |-> width_mm,
                 depth_mm |-> depth_mm,
                 value |-> TimberSection(width_mm, depth_mm)]
    /\ pc' = "returned"
    /\ UNCHANGED << caller, inp, call, beam, chk, results, err, report >>
    /\ UNCHANGED aside

(* get_grade(name) for the names of the table and some that are not. *)
AskedNames == GradeNames \cup { "SG10", "sg8", "" }

GetGrade ==
    /\ pc = "strength" /\ caller = "unit"
    /\ \E grade_name \in AskedNames :
         ret' = [fn |-> "get_grade", grade_name |-> grade_name,
                 value |-> get_grade(grade_name)]
    /\ pc' = "returned"
    /\ UNCHANGED << caller, inp, call, beam, chk, results, err, report >>
    /\ UNCHANGED aside

Next ==
    \/ AppCollectInputs
    \/ AnalyseSimplySupported
    \/ AnalyseOverhanging
    \/ BuildBeamActions
    \/ RunAllChecks
    \/ CheckStrength
    \/ ComputeLineLoads
    \/ ConstructSection
    \/ GetGrade

Spec == Init /\ [][Next]_vars

(***************************************************************************)
(* Properties.  They read the outcome of a run from the state: the         *)
(* BeamActions in beam, the grade, section and factors of the call of      *)
(* run_all_checks in chk, and the returned CheckResults in results.        *)
(***************************************************************************)
Range(s) == { s[i] : i \in 1..Len(s) }

ResultNamed(name) == CHOOSE r \in Range(results) : r.name = name

Checked == pc = "checked"

ChecksCalled == chk.grade_name # "none"

ChkGrade == TIMBER_GRADES[chk.grade_name]

IsOverhanging == beam.beam_type = OVERHANGING

IsSimplySupported == beam.beam_type = SIMPLY_SUPPORTED

Positive(x) == IsNum(x) /\ x.n > 0

Negative(x) == IsNum(x) /\ x.n < 0

UtilisationContract(r) ==
    /\ Positive(r.capacity) =>
           r.utilisation = RMul(RDiv(r.demand, r.capacity), I(100))
    /\ r.capacity = Zero => r.utilisation = I(999) /\ ~r.passed
    /\ r.passed <=> ~Positive(RSub(r.utilisation, I(100)))

UpliftResult(r) ==
    IsOverhanging /\ r.name = "Bearing (R1)" /\ Negative(beam.R_left)

(* C1 as stated: every CheckResult returned by run_all_checks has          *)
(* utilisation = demand/capacity*100 when capacity > 0, utilisation 999    *)
(* and passed False when capacity = 0, and passed exactly when             *)
(* utilisation <= 100.                                                     *)
C1_AsClaimed == Checked => \A r \in Range(results) : UtilisationContract(r)

(* C1: every CheckResult returned by run_all_checks, other than the        *)
(* 'Bearing (R1)' result of an overhanging beam whose R1 is negative, has  *)
(* utilisation = demand/capacity*100 when capacity > 0, utilisation 999    *)
(* and passed False when capacity = 0, and passed exactly when             *)
(* utilisation <= 100; the 'Bearing (R1)' result under a negative R1 has   *)
(* demand 0, utilisation 0 and passed True whatever its capacity.          *)
C1_UtilisationContract ==
    Checked =>
        \A r \in Range(results) :
            IF UpliftResult(r)
            THEN r.demand = Zero /\ r.utilisation = Zero /\ r.passed
            ELSE UtilisationContract(r)

C1_Witness ==
    /\ Checked
    /\ \E r \in Range(results) : UpliftResult(r) /\ r.capacity = Zero
    /\ \E r \in Range(results) :
           Positive(r.capacity) /\ Positive(r.utilisation) /\ r.passed
    /\ \E r \in Range(results) :
           Positive(r.capacity) /\ Positive(r.utilisation) /\ ~r.passed
    /\ \E r \in Range(results) :
           ~UpliftResult(r) /\ r.capacity = Zero

ManualShearResult ==
    [name |-> "Shear", demand |-> beam.V_star, capacity |-> Zero,
     utilisation |-> I(999), passed |-> FALSE, unit |-> "kN",
     details |-> MANUAL_SHEAR]

(* C2: for a grade without shear strength (fs None) run_all_checks does    *)
(* not raise, and its Shear entry -- third for an overhanging beam, second *)
(* for a simply supported one -- has capacity 0, utilisation 999, passed   *)
(* False, the manual-check-required details and demand V*.                 *)
C2_ShearWithoutData ==
    (ChecksCalled /\ ChkGrade.fs = None) =>
        /\ Checked
        /\ results[IF IsOverhanging THEN 3 ELSE 2] = ManualShearResult
        /\ \A r \in Range(results) : r.name = "Shear" => r = ManualShearResult

C2_Witness ==
    /\ Checked /\ ChkGrade.fs = None /\ IsOverhanging
    /\ Positive(beam.V_star)
    /\ ResultNamed("Shear").demand = beam.V_star
    /\ ~ResultNamed("Shear").passed

ManualBearing(r) ==
    r.capacity = Zero /\ ~r.passed /\ r.details = MANUAL_BEARING

(* C3 as stated: for a grade without bearing strength (fp None) every      *)
(* bearing result of run_all_checks -- 'Bearing', 'Bearing (R1)' and       *)
(* 'Bearing (R2)', whatever the sign of R1 -- has capacity 0, passed False *)
(* and the manual-check-required details, and nothing is raised.           *)
C3_AsClaimed ==
    (ChecksCalled /\ ChkGrade.fp = None) =>
        /\ Checked
        /\ IF IsOverhanging
           THEN /\ ManualBearing(ResultNamed("Bearing (R1)"))
                /\ ManualBearing(ResultNamed("Bearing (R2)"))
           ELSE ManualBearing(ResultNamed("Bearing"))

(* C3: for a grade without bearing strength (fp None) nothing is raised;   *)
(* 'Bearing', 'Bearing (R2)' and, when R1 >= 0, 'Bearing (R1)' have        *)
(* capacity 0, passed False and the manual-check-required details; when    *)
(* R1 < 0, 'Bearing (R1)' has capacity 0, passed True and the uplift       *)
(* details.                                                                *)
C3_BearingWithoutData ==
    (ChecksCalled /\ ChkGrade.fp = None) =>
        /\ Checked
        /\ IF IsOverhanging
           THEN /\ ManualBearing(ResultNamed("Bearing (R2)"))
                /\ LET r1 == ResultNamed("Bearing (R1)")
                   IN  IF Negative(beam.R_left)
                       THEN /\ r1.capacity = Zero /\ r1.passed
                            /\ r1.details = UPLIFT_DETAILS
                       ELSE ManualBearing(r1)
           ELSE ManualBearing(ResultNamed("Bearing"))

C3_Witness ==
    /\ Checked /\ ChkGrade.fp = None /\ IsOverhanging
    /\ Negative(beam.R_left)
    /\ ResultNamed("Bearing (R1)").passed
    /\ ~ResultNamed("Bearing (R2)").passed

OrdinaryBearing(name, demand) ==
    [check_bearing(demand, chk.section, ChkGrade, chk.f.k1,
                   chk.f.bearing_length_mm, chk.f.k6, chk.f.k7)
        EXCEPT !.name = name]

(* C4: for an overhanging beam, 'Bearing (R1)' has demand 0, utilisation   *)
(* 0, passed True and the uplift details when R1 < 0, and is the ordinary  *)
(* bearing check with demand R1 when R1 >= 0 (R1 = 0 included);            *)
(* 'Bearing (R2)' is always the ordinary bearing check with demand |R2|.   *)
C4_UpliftBearing ==
    (Checked /\ IsOverhanging) =>
        LET R1 == beam.R_left
            R2 == beam.R_right
            r1 == results[4]
            r2 == results[5]
        IN  /\ r1.name = "Bearing (R1)" /\ r2.name = "Bearing (R2)"
            /\ IF Negative(R1)
               THEN /\ r1.demand = Zero /\ r1.utilisation = Zero
                    /\ r1.passed /\ r1.details = UPLIFT_DETAILS
               ELSE /\ r1.demand = R1
                    /\ r1 = OrdinaryBearing("Bearing (R1)", R1)
            /\ r2.demand = (IF Negative(R2) THEN RNeg(R2) ELSE R2)
            /\ r2 = OrdinaryBearing("Bearing (R2)", r2.demand)

C4_Witness ==
    /\ Checked /\ IsOverhanging /\ caller = "app"
    /\ Negative(beam.R_left)
    /\ Positive(results[4].capacity)
    /\ results[4].details = UPLIFT_DETAILS
    /\ Positive(results[5].demand)

OverhangingCall == call.beam_type = OVERHANGING

AnalysisDone == pc \in {"analysed", "checked", "raised"}

(* C5: analyse_overhanging raises ValueError, and returns no BeamActions   *)
(* and divides by nothing, whenever cant_span_m >= total_span_m; otherwise *)
(* it returns a BeamActions whose back_span_m is total_span_m minus        *)
(* cant_span_m and is positive.  The application run never reaches the     *)
(* analysis call with a non-positive back span: it stops first.            *)
C5_BackSpanPositive ==
    /\ (caller = "api" /\ OverhangingCall /\ AnalysisDone) =>
           IF Positive(RSub(call.total_span_m, call.cant_span_m))
           THEN /\ beam.beam_type = OVERHANGING
                /\ beam.back_span_m =
                       RSub(call.total_span_m, call.cant_span_m)
                /\ Positive(beam.back_span_m)
                /\ err # "ValueError"
           ELSE /\ pc = "raised" /\ err = "ValueError"
                /\ beam.beam_type = "none"
    /\ (caller = "app" /\ inp.beam_type = OVERHANGING
        /\ ~Positive(RSub(inp.span_m, inp.cant_span_m))) =>
           pc \in {"start", "stopped"} /\ call.beam_type = "none"
           /\ beam.beam_type = "none"
    /\ (caller = "app" /\ OverhangingCall /\ AnalysisDone) =>
           /\ beam.beam_type = OVERHANGING
           /\ Positive(beam.back_span_m)

C5_Witness ==
    /\ caller = "api" /\ OverhangingCall
    /\ call.cant_span_m = call.total_span_m
    /\ Positive(call.total_span_m)
    /\ pc = "raised" /\ err = "ValueError" /\ beam.beam_type = "none"

InsideSpan(pl, span_m) ==
    pl.a_m.n > 0 /\ RSign(RSub(span_m, pl.a_m)) > 0

OnOverhang(pl, cant_span_m) ==
    pl.a_m.n > 0 /\ RSign(RSub(cant_span_m, pl.a_m)) >= 0

InputBackSpan == RSub(inp.span_m, inp.cant_span_m)

(* C6: PointLoad.validate(span) is true exactly when 0 < a_m < span and    *)
(* PointLoadOverhang.validate(cant) exactly when 0 < a_m <= cant.  In the  *)
(* application run the lists handed to the analysis are the entered loads  *)
(* that satisfy the predicate (against the full span, the back span and    *)
(* the overhang length), in their order, the others being left out; and    *)
(* the analysis returns the loads it was given, positions unchanged.       *)
C6_PointLoadValidation ==
    /\ \A pl \in Range(inp.point_loads) \cup Range(inp.point_loads_back)
                 \cup Range(inp.point_loads_cant) :
           \A L \in {inp.span_m, inp.cant_span_m, InputBackSpan} :
               /\ PointLoad_validate(pl, L) <=> InsideSpan(pl, L)
               /\ PointLoadOverhang_validate(pl, L) <=> OnOverhang(pl, L)
    /\ (caller = "app" /\ call.beam_type # "none") =>
           /\ call.point_loads =
                  SelectSeq(inp.point_loads,
                            LAMBDA pl : InsideSpan(pl, inp.span_m))
           /\ call.point_loads_back =
                  SelectSeq(inp.point_loads_back,
                            LAMBDA pl : InsideSpan(pl, InputBackSpan))
           /\ call.point_loads_cant =
                  SelectSeq(inp.point_loads_cant,
                            LAMBDA pl : OnOverhang(pl, inp.cant_span_m))
    /\ (caller \in {"app", "api"} /\ beam.beam_type # "none") =>
           /\ IsSimplySupported => beam.point_loads = call.point_loads
           /\ IsOverhanging =>
                  /\ beam.point_loads_back = call.point_loads_back
                  /\ beam.point_loads_cant = call.point_loads_cant

C6_Witness ==
    /\ caller = "app" /\ Checked /\ IsOverhanging
    /\ Len(inp.point_loads_cant) = 1
    /\ inp.point_loads_cant[1].a_m = inp.cant_span_m
    /\ beam.point_loads_cant = inp.point_loads_cant
    /\ Len(inp.point_loads_back) = 1
    /\ inp.point_loads_back[1].a_m = InputBackSpan
    /\ beam.point_loads_back = <<>>

ChkE == ChkGrade.E

ChkK2 == ChkGrade.k2

ChkIx == Ix(chk.section)

BetweenSupports(w_back, w_cant, pls_back, pls_cant) ==
    calc_total_deflection_overhang_between(
        w_back, w_cant, beam.back_span_m, beam.cant_span_m, ChkE, ChkIx,
        pls_back, pls_cant)

AtTip(w_cant, pls_cant) ==
    calc_total_deflection_overhang_tip(
        w_cant, beam.cant_span_m, beam.back_span_m, ChkE, ChkIx, pls_cant)

AtMidspan(w, pls) == calc_total_deflection(w, beam.span_m, ChkE, ChkIx, pls)

BackBreakdown == Positive(beam.w_G_back) \/ Positive(beam.w_psi_lQ_back)

CantBreakdown == Positive(beam.w_G_cant) \/ Positive(beam.w_psi_lQ_cant)

(* C7: with a G/Q breakdown the long-term deflection demand is k2 times    *)
(* the deflection under the dead-load line loads alone plus the deflection *)
(* under the long-term live line loads and the point loads, k2 multiplying *)
(* the dead-load term only: for 'Deflection (long-term)' when w_G > 0 or   *)
(* w_psi_lQ > 0, for 'Defl. back span (LT)' when any of the four breakdown *)
(* loads is positive, for 'Defl. overhang (LT)' when w_G_cant > 0 or       *)
(* w_psi_lQ_cant > 0.                                                      *)
C7_CreepOnDeadLoadOnly ==
    Checked =>
        IF IsOverhanging
        THEN /\ (BackBreakdown \/ CantBreakdown) =>
                    ResultNamed("Defl. back span (LT)").demand =
                        RAdd(RMul(ChkK2,
                                  BetweenSupports(beam.w_G_back,
                                                  beam.w_G_cant, <<>>, <<>>)),
                             BetweenSupports(beam.w_psi_lQ_back,
                                             beam.w_psi_lQ_cant,
                                             beam.point_loads_back,
                                             beam.point_loads_cant))
             /\ CantBreakdown =>
                    ResultNamed("Defl. overhang (LT)").demand =
                        RAdd(RMul(ChkK2, AtTip(beam.w_G_cant, <<>>)),
                             AtTip(beam.w_psi_lQ_cant,
                                   beam.point_loads_cant))
        ELSE BackBreakdown =>
                 ResultNamed("Deflection (long-term)").demand =
                     RAdd(RMul(ChkK2, AtMidspan(beam.w_G_back, <<>>)),
                          AtMidspan(beam.w_psi_lQ_back, beam.point_loads))

C7_Witness ==
    /\ Checked /\ IsOverhanging /\ ChkK2 # I(1)
    /\ Positive(beam.w_G_cant) /\ Positive(beam.w_psi_lQ_cant)
    /\ Positive(beam.w_G_back) /\ Positive(beam.w_psi_lQ_back)
    /\ Len(beam.point_loads_cant) = 1 /\ Len(beam.point_loads_back) = 1
    /\ Positive(AtTip(beam.w_G_cant, <<>>))
    /\ Positive(ResultNamed("Defl. back span (LT)").demand)
    /\ Positive(ResultNamed("Defl. overhang (LT)").demand)

(* C8: without a G/Q breakdown the long-term deflection demand is k2 times *)
(* the whole elastic deflection under the SLS-long line loads and the      *)
(* point loads: for 'Deflection (long-term)' when w_G = 0 and w_psi_lQ =   *)
(* 0, for 'Defl. back span (LT)' when all four breakdown loads are 0, for  *)
(* 'Defl. overhang (LT)' when w_G_cant = 0 and w_psi_lQ_cant = 0.          *)
C8_CreepOnWholeDeflection ==
    Checked =>
        IF IsOverhanging
        THEN /\ (beam.w_G_back = Zero /\ beam.w_psi_lQ_back = Zero
                 /\ beam.w_G_cant = Zero /\ beam.w_psi_lQ_cant = Zero) =>
                    ResultNamed("Defl. back span (LT)").demand =
                        RMul(ChkK2,
                             BetweenSupports(beam.w_sls_long,
                                             beam.w_sls_long_cant,
                                             beam.point_loads_back,
                                             beam.point_loads_cant))
             /\ (beam.w_G_cant = Zero /\ beam.w_psi_lQ_cant = Zero) =>
                    ResultNamed("Defl. overhang (LT)").demand =
                        RMul(ChkK2, AtTip(beam.w_sls_long_cant,
                                          beam.point_loads_cant))
        ELSE (beam.w_G_back = Zero /\ beam.w_psi_lQ_back = Zero) =>
                 ResultNamed("Deflection (long-term)").demand =
                     RMul(ChkK2, AtMidspan(beam.w_sls_long,
                                           beam.point_loads))

C8_Witness ==
    /\ Checked /\ IsSimplySupported /\ ChkK2 # I(1)
    /\ beam.w_G_back = Zero /\ beam.w_psi_lQ_back = Zero
    /\ Positive(beam.w_sls_long) /\ Len(beam.point_loads) = 1
    /\ Positive(ResultNamed("Deflection (long-term)").demand)

DownwardShort ==
    RAdd(calc_deflection_overhang_backspan_udl(
             beam.w_sls_short, beam.back_span_m, ChkE, ChkIx),
         SumOver([i \in 1..Len(beam.point_loads_back) |->
             LET pl == beam.point_loads_back[i]
             IN  calc_deflection_overhang_pl_back_between(pl.P_sls, pl.a_m, beam.back_span_m, ChkE, ChkIx)]))

UpwardShort ==
    RAdd(calc_deflection_overhang_cantudl_between(
             beam.w_sls_short_cant, beam.cant_span_m, beam.back_span_m,
             ChkE, ChkIx),
         SumOver([i \in 1..Len(beam.point_loads_cant) |->
             LET pl == beam.point_loads_cant[i]
             IN  calc_deflection_overhang_pl_cant_between(pl.P_sls, pl.a_m, beam.back_span_m, ChkE, ChkIx)]))

(* C9: the deflection between the supports is the downward part (back span *)
(* UDL and back span point loads) minus the upward part (overhang UDL and  *)
(* overhang point loads), or 0 when that is negative; the demands of       *)
(* 'Defl. back span (ST)' and 'Defl. back span (LT)' are never negative.   *)
C9_NetDeflectionClamped ==
    (Checked /\ IsOverhanging) =>
        LET net == RSub(DownwardShort, UpwardShort)
            st == ResultNamed("Defl. back span (ST)")
            lt == ResultNamed("Defl. back span (LT)")
        IN  /\ st.demand = (IF Positive(net) THEN net ELSE Zero)
            /\ ~Negative(st.demand) /\ IsNum(st.demand)
            /\ ~Negative(lt.demand) /\ IsNum(lt.demand)

C9_Witness ==
    /\ Checked /\ IsOverhanging
    /\ Positive(DownwardShort)
    /\ Negative(RSub(DownwardShort, UpwardShort))
    /\ ResultNamed("Defl. back span (ST)").demand = Zero
    /\ ResultNamed("Defl. back span (LT)").demand = Zero

Sentinel(r) == r.capacity = Zero /\ r.utilisation = I(999) /\ ~r.passed

(* C10: when the allowable deflection is zero -- span 0 for a simply       *)
(* supported beam, back span 0 or overhang length 0 for an overhanging     *)
(* beam -- run_all_checks returns its results without raising, and the     *)
(* deflection results concerned have utilisation 999 and passed False.     *)
C10_ZeroAllowableGuarded ==
    ChecksCalled =>
        /\ (IsSimplySupported /\ beam.span_m = Zero) =>
               /\ Checked
               /\ Sentinel(ResultNamed("Deflection (short-term)"))
               /\ Sentinel(ResultNamed("Deflection (long-term)"))
        /\ (IsOverhanging /\ beam.back_span_m = Zero) =>
               /\ Checked
               /\ Sentinel(ResultNamed("Defl. back span (ST)"))
               /\ Sentinel(ResultNamed("Defl. back span (LT)"))
        /\ (IsOverhanging /\ beam.cant_span_m = Zero) =>
               /\ Checked
               /\ Sentinel(ResultNamed("Defl. overhang (ST)"))
               /\ Sentinel(ResultNamed("Defl. overhang (LT)"))

C10_Witness ==
    /\ Checked /\ IsOverhanging
    /\ beam.back_span_m = Zero /\ Positive(beam.cant_span_m)
    /\ Sentinel(ResultNamed("Defl. back span (ST)"))
    /\ Sentinel(ResultNamed("Defl. back span (LT)"))
    /\ ~Sentinel(ResultNamed("Defl. overhang (ST)"))

(***************************************************************************)
(* The strength checks called directly on two demands.                     *)
(***************************************************************************)
StrengthChecked == pc = "rated"

(* C11: for check_bending, check_shear and check_bearing at a fixed        *)
(* capacity above zero, the larger demand never has the smaller            *)
(* utilisation; a demand equal to the capacity has utilisation exactly 100 *)
(* and passes; a demand above the capacity fails.                          *)
C11_StrengthMonotone ==
    (StrengthChecked /\ Positive(results[1].capacity)) =>
        /\ results[2].capacity = results[1].capacity
        /\ RLe(results[1].demand, results[2].demand)
        /\ RLe(results[1].utilisation, results[2].utilisation)
        /\ \A r \in Range(results) :
               /\ r.demand = r.capacity =>
                      r.utilisation = I(100) /\ r.passed
               /\ RLt(r.capacity, r.demand) => ~r.passed

C11_Witness ==
    /\ StrengthChecked
    /\ Positive(results[1].capacity)
    /\ results[1].demand = results[1].capacity
    /\ RLt(results[2].capacity, results[2].demand)
    /\ results[1].passed /\ ~results[2].passed

(***************************************************************************)
(* The list returned by run_all_checks.                                    *)
(***************************************************************************)
ResultNames == [i \in 1..Len(results) |-> results[i].name]

NamesSimplySupported ==
    << "Bending", "Shear", "Bearing", "Deflection (short-term)",
       "Deflection (long-term)" >>

NamesOverhanging ==
    << "Bending (sagging)", "Bending (hogging)", "Shear", "Bearing (R1)",
       "Bearing (R2)", "Defl. back span (ST)", "Defl. back span (LT)",
       "Defl. overhang (ST)", "Defl. overhang (LT)" >>

(* C13: run_all_checks returns exactly five results in the order Bending,  *)
(* Shear, Bearing, Deflection (short-term), Deflection (long-term) for a    *)
(* simply supported beam and exactly nine in the order Bending (sagging),  *)
(* Bending (hogging), Shear, Bearing (R1), Bearing (R2), Defl. back span   *)
(* (ST), Defl. back span (LT), Defl. overhang (ST), Defl. overhang (LT)    *)
(* for an overhanging one, whatever the grade data and the sign of R1; the *)
(* sagging check has M_sagging as demand and the hogging check M_hogging.  *)
C13_ResultsInOrder ==
    Checked =>
        /\ IsSimplySupported => ResultNames = NamesSimplySupported
        /\ IsOverhanging =>
               /\ ResultNames = NamesOverhanging
               /\ results[1].demand = beam.M_sagging
               /\ results[2].demand = beam.M_hogging

C13_Witness ==
    /\ Checked /\ IsOverhanging
    /\ ChkGrade.fs = None /\ ChkGrade.fp = None
    /\ Negative(beam.R_left)
    /\ Positive(beam.M_sagging)
    /\ RLt(beam.M_sagging, beam.M_hogging)
    /\ Len(results) = 9
    /\ results[1].demand = beam.M_sagging

(***************************************************************************)
(* What main() reports for a calculated beam.                              *)
(***************************************************************************)
Reported == Checked /\ caller = "app"

Adequate == report.headline = "DESIGN ADEQUATE"

(* C14: for a calculated beam all_passed is the conjunction of the passed  *)
(* flags of the results of run_all_checks and max_util the largest of      *)
(* their utilisations; the banner reads ADEQUATE exactly when all_passed   *)
(* is true, so an adequate design has no headline utilisation above 100    *)
(* and no result with utilisation 999.                                     *)
C14_OverallVerdict ==
    Reported =>
        /\ report.all_passed <=> (\A r \in Range(results) : r.passed)
        /\ \E r \in Range(results) : r.utilisation = report.max_util
        /\ \A r \in Range(results) : RLe(r.utilisation, report.max_util)
        /\ report.headline \in {"DESIGN ADEQUATE", "DESIGN INADEQUATE"}
        /\ Adequate <=> report.all_passed
        /\ Adequate =>
               /\ RLe(report.max_util, I(100))
               /\ \A r \in Range(results) : r.utilisation # I(999)

C14_Witness ==
    /\ Reported /\ Adequate
    /\ Positive(report.max_util)
    /\ \E r \in Range(results) : RLt(r.utilisation, report.max_util)
    /\ \A r \in Range(results) : r.passed

(* A calculated beam with passing and failing results is not adequate. *)
C14_WitnessInadequate ==
    /\ Reported /\ ~Adequate
    /\ \E r \in Range(results) : r.passed
    /\ \E r \in Range(results) : r.utilisation = I(999)

(***************************************************************************)
(* Closed forms of the simply supported beam, written out from statics.    *)
(***************************************************************************)
HasBeam == pc \in {"analysed", "checked"} /\ caller \in {"app", "api"}

RECURSIVE Sum(_)
Sum(s) == IF s = <<>> THEN Zero ELSE RAdd(Head(s), Sum(Tail(s)))

(* w L^2 / 8 *)
UdlMoment(w, L) == RDiv(RMul(w, RMul(L, L)), I(8))

(* w L / 2 *)
UdlReaction(w, L) == RDiv(RMul(w, L), I(2))

(* P a (L - a) / L for each load of the list *)
Moments(pls, L) ==
    [i \in 1..Len(pls) |->
        RDiv(RMul(pls[i].P_uls, RMul(pls[i].a_m, RSub(L, pls[i].a_m))), L)]

(* P (L - a) / L for each load of the list *)
LeftShares(pls, L) ==
    [i \in 1..Len(pls) |-> RDiv(RMul(pls[i].P_uls, RSub(L, pls[i].a_m)), L)]

(* P a / L for each load of the list *)
RightShares(pls, L) ==
    [i \in 1..Len(pls) |-> RDiv(RMul(pls[i].P_uls, pls[i].a_m), L)]

UdlOnly(L, w) == analyse_simply_supported(L, w, Zero, Zero, <<>>, Zero, Zero)

(* C15: for a span L > 0, a UDL w >= 0 and point loads with 0 < a < L,     *)
(* analyse_simply_supported returns M_star = w L^2/8 + sum P a (L-a)/L,    *)
(* R_left = w L/2 + sum P (L-a)/L, R_right = w L/2 + sum P a/L and         *)
(* V_star = R_max = max(R_left, R_right); without point loads M = w L^2/8  *)
(* and V = R = w L/2, and L = 4 with w = 5 gives M* = 10, V* = R_max = 10. *)
C15_SimplySupportedClosedForm ==
    /\ (HasBeam /\ IsSimplySupported /\ Positive(beam.span_m)) =>
           /\ \A i \in 1..Len(beam.point_loads) :
                  InsideSpan(beam.point_loads[i], beam.span_m)
           /\ beam.M_star =
                  RAdd(UdlMoment(beam.w_uls, beam.span_m),
                       Sum(Moments(beam.point_loads, beam.span_m)))
           /\ beam.R_left =
                  RAdd(UdlReaction(beam.w_uls, beam.span_m),
                       Sum(LeftShares(beam.point_loads, beam.span_m)))
           /\ beam.R_right =
                  RAdd(UdlReaction(beam.w_uls, beam.span_m),
                       Sum(RightShares(beam.point_loads, beam.span_m)))
           /\ RLe(beam.R_left, beam.V_star) /\ RLe(beam.R_right, beam.V_star)
           /\ beam.V_star \in {beam.R_left, beam.R_right}
           /\ beam.R_max = beam.V_star
           /\ beam.point_loads = <<>> =>
                  /\ beam.M_star = UdlMoment(beam.w_uls, beam.span_m)
                  /\ beam.V_star = UdlReaction(beam.w_uls, beam.span_m)
    /\ LET b == UdlOnly(I(4), I(5))
       IN  b.M_star = I(10) /\ b.V_star = I(10) /\ b.R_max = I(10)

C15_Witness ==
    /\ HasBeam /\ IsSimplySupported
    /\ Positive(beam.w_uls)
    /\ Len(beam.point_loads) = 2
    /\ RLt(beam.R_left, beam.R_right)
    /\ RLt(UdlMoment(beam.w_uls, beam.span_m), beam.M_star)

(***************************************************************************)
(* Reaction shares of a point load between two supports.                   *)
(***************************************************************************)
Shares(P, left, right) ==
    /\ RAdd(left, right) = P
    /\ RLe(Zero, left) /\ RLe(left, P)
    /\ RLe(Zero, right) /\ RLe(right, P)

SimpleShares(pl, L) ==
    Shares(pl.P_uls, point_load_reactions(pl.P_uls, pl.a_m, L).Ra,
           point_load_reactions(pl.P_uls, pl.a_m, L).Rb)

BackSpanShares(pl, ell) ==
    Shares(pl.P_uls, point_load_reactions_backspan(pl.P_uls, pl.a_m, ell).R1,
           point_load_reactions_backspan(pl.P_uls, pl.a_m, ell).R2)

OffCentre(pls, L) == \E i \in 1..Len(pls) : RAdd(pls[i].a_m, pls[i].a_m) # L

(* C16: for a point load P >= 0 at 0 < a < L, point_load_reactions returns *)
(* Ra and Rb with Ra + Rb = P and 0 <= Ra, Rb <= P, and so does            *)
(* point_load_reactions_backspan on the back span of an overhanging beam;  *)
(* the reactions of a simply supported beam therefore add up to the load   *)
(* on it.                                                                  *)
C16_ReactionShares ==
    /\ (HasBeam /\ IsSimplySupported /\ Positive(beam.span_m)) =>
           /\ \A i \in 1..Len(beam.point_loads) :
                  /\ RLe(Zero, beam.point_loads[i].P_uls)
                  /\ InsideSpan(beam.point_loads[i], beam.span_m)
                  /\ SimpleShares(beam.point_loads[i], beam.span_m)
           /\ RAdd(beam.R_left, beam.R_right) =
                  RAdd(RMul(beam.w_uls, beam.span_m),
                       Sum([i \in 1..Len(beam.point_loads) |->
                               beam.point_loads[i].P_uls]))
    /\ (HasBeam /\ IsOverhanging) =>
           \A i \in 1..Len(beam.point_loads_back) :
              /\ RLe(Zero, beam.point_loads_back[i].P_uls)
              /\ InsideSpan(beam.point_loads_back[i], beam.back_span_m)
              /\ BackSpanShares(beam.point_loads_back[i], beam.back_span_m)

C16_Witness ==
    /\ HasBeam /\ IsSimplySupported
    /\ OffCentre(beam.point_loads, beam.span_m)
    /\ SimpleShares(beam.point_loads[1], beam.span_m)

C16_WitnessBackSpan ==
    /\ HasBeam /\ IsOverhanging
    /\ OffCentre(beam.point_loads_back, beam.back_span_m)
    /\ BackSpanShares(beam.point_loads_back[1], beam.back_span_m)

(***************************************************************************)
(* Sagging moment between the supports of an overhanging beam.             *)
(***************************************************************************)
(* The left reaction under both UDLs: w_back l/2 - w_cant a^2/(2 l). *)
UdlReactionR1 ==
    RSub(RDiv(RMul(beam.w_uls, beam.back_span_m), I(2)),
         RDiv(RMul(beam.w_uls_cant, RMul(beam.cant_span_m, beam.cant_span_m)),
              RMul(I(2), beam.back_span_m)))

(* The place of zero shear, R1/w_back from the left support. *)
ZeroShear == RDiv(UdlReactionR1, beam.w_uls)

(* R1 x - w_back x^2/2 *)
MomentAt(x) ==
    RSub(RMul(UdlReactionR1, x), RDiv(RMul(beam.w_uls, RMul(x, x)), I(2)))

ZeroShearInside == RLt(Zero, ZeroShear) /\ RLt(ZeroShear, beam.back_span_m)

OverhangingBackLoaded == HasBeam /\ IsOverhanging /\ Positive(beam.w_uls)

(* C17: in analyse_overhanging with w_uls_back > 0 and R1 the combined UDL *)
(* reaction at the left support, M_sagging_udl is R1 x - w_back x^2/2 at   *)
(* x = R1/w_back when 0 < x < back span, and otherwise the larger of 0 and *)
(* R1 l - w_back l^2/2; it is never negative and, the loads being          *)
(* non-negative, never above w_back l^2/8.  M_sagging is M_sagging_udl     *)
(* plus the sum of P a (l - a)/l over the back-span point loads.           *)
C17_SaggingMoment ==
    OverhangingBackLoaded =>
        /\ beam.M_sagging_udl =
               IF ZeroShearInside
               THEN MomentAt(ZeroShear)
               ELSE RMax(Zero, MomentAt(beam.back_span_m))
        /\ RLe(Zero, beam.M_sagging_udl)
        /\ RLe(beam.M_sagging_udl, UdlMoment(beam.w_uls, beam.back_span_m))
        /\ beam.M_sagging =
               RAdd(beam.M_sagging_udl,
                    Sum(Moments(beam.point_loads_back, beam.back_span_m)))

C17_Witness ==
    /\ OverhangingBackLoaded
    /\ ZeroShearInside
    /\ Positive(beam.w_uls_cant) /\ Positive(beam.cant_span_m)
    /\ Positive(beam.M_sagging_udl)
    /\ RLt(beam.M_sagging_udl, UdlMoment(beam.w_uls, beam.back_span_m))
    /\ RLt(beam.M_sagging_udl, beam.M_sagging)

(* The zero-shear point falls outside the back span: no sagging from UDL. *)
C17_WitnessOutside ==
    /\ OverhangingBackLoaded
    /\ ~ZeroShearInside
    /\ beam.M_sagging_udl = Zero
    /\ Negative(MomentAt(beam.back_span_m))

(***************************************************************************)
(* Governing actions of an overhanging beam and the hold-down warning.     *)
(***************************************************************************)
Magnitude(x) == IF Negative(x) THEN RNeg(x) ELSE x

Largest(x, y, z) == z \in {x, y} /\ RLe(x, z) /\ RLe(y, z)

(* All the load on the beam: both UDLs over their lengths and every point  *)
(* load.                                                                   *)
TotalLoad ==
    RAdd(RAdd(RMul(beam.w_uls, beam.back_span_m),
              RMul(beam.w_uls_cant, beam.cant_span_m)),
         RAdd(Sum([i \in 1..Len(beam.point_loads_back) |->
                      beam.point_loads_back[i].P_uls]),
              Sum([i \in 1..Len(beam.point_loads_cant) |->
                      beam.point_loads_cant[i].P_uls])))

(* C18: a BeamActions returned by analyse_overhanging has M_star equal to  *)
(* the larger of M_sagging and M_hogging and V_star = R_max equal to the   *)
(* larger of |R_left| and |R_right|, while R_left is signed: with R_right  *)
(* it balances the load, and it is negative under uplift.  The application *)
(* shows the hold-down warning exactly when R_left < 0.                    *)
C18_GoverningActions ==
    /\ (HasBeam /\ IsOverhanging) =>
           /\ Largest(beam.M_sagging, beam.M_hogging, beam.M_star)
           /\ Largest(Magnitude(beam.R_left), Magnitude(beam.R_right),
                      beam.V_star)
           /\ beam.R_max = beam.V_star
           /\ RAdd(beam.R_left, beam.R_right) = TotalLoad
    /\ Reported => (report.uplift_warning <=> Negative(beam.R_left))

C18_Witness ==
    /\ Reported /\ IsOverhanging
    /\ Negative(beam.R_left)
    /\ report.uplift_warning
    /\ RLt(beam.M_sagging, beam.M_hogging)
    /\ beam.M_star = beam.M_hogging

(* A left reaction of exactly zero: no warning. *)
C18_WitnessNoUplift ==
    /\ Reported /\ IsOverhanging
    /\ beam.R_left = Zero
    /\ ~report.uplift_warning

(***************************************************************************)
(* An overhanging beam loaded on its overhang only.                        *)
(***************************************************************************)
OverhangOnly ==
    /\ HasBeam /\ IsOverhanging
    /\ beam.w_uls = Zero /\ beam.point_loads_back = <<>>

(* -P x1 / l for each load of the list *)
UpliftShares(pls, ell) ==
    [i \in 1..Len(pls) |-> RNeg(RDiv(RMul(pls[i].P_uls, pls[i].a_m), ell))]

(* P (l + x1) / l for each load of the list *)
AmplifiedShares(pls, ell) ==
    [i \in 1..Len(pls) |->
        RDiv(RMul(pls[i].P_uls, RAdd(ell, pls[i].a_m)), ell)]

(* P x1 for each load of the list *)
HoggingMoments(pls) == [i \in 1..Len(pls) |-> RMul(pls[i].P_uls, pls[i].a_m)]

(* -w a^2 / (2 l) *)
UdlUplift(w, a, ell) == RNeg(RDiv(RMul(w, RMul(a, a)), RMul(I(2), ell)))

(* w a (2 l + a) / (2 l) *)
UdlAmplified(w, a, ell) ==
    RDiv(RMul(RMul(w, a), RAdd(RMul(I(2), ell), a)), RMul(I(2), ell))

(* w a^2 / 2 *)
UdlHogging(w, a) == RDiv(RMul(w, RMul(a, a)), I(2))

OverhangUdlOnly(total_span_m, a, w) ==
    analyse_overhanging(total_span_m, a, Zero, Zero, Zero, w, Zero, Zero,
                        <<>>, <<>>, Zero, Zero, Zero, Zero)

(* C19: with the back span unloaded, an overhang of length a under a UDL w *)
(* and a back span l give R_left = -w a^2/(2 l), R_right =                 *)
(* w a (2 l + a)/(2 l), M_hogging = w a^2/2, M_sagging = 0 and M_star =    *)
(* M_hogging; a = 1 on a total span of 4 with w = 5 gives -5/6, 35/6 and   *)
(* 5/2.  Each overhang point load P at x1 from R2 adds -P x1/l to R_left,  *)
(* P (l + x1)/l to R_right and P x1 to M_hogging.                          *)
C19_OverhangLoadsOnly ==
    /\ OverhangOnly =>
           /\ beam.R_left =
                  RAdd(UdlUplift(beam.w_uls_cant, beam.cant_span_m,
                                 beam.back_span_m),
                       Sum(UpliftShares(beam.point_loads_cant,
                                        beam.back_span_m)))
           /\ beam.R_right =
                  RAdd(UdlAmplified(beam.w_uls_cant, beam.cant_span_m,
                                    beam.back_span_m),
                       Sum(AmplifiedShares(beam.point_loads_cant,
                                           beam.back_span_m)))
           /\ beam.M_hogging =
                  RAdd(UdlHogging(beam.w_uls_cant, beam.cant_span_m),
                       Sum(HoggingMoments(beam.point_loads_cant)))
           /\ beam.M_sagging = Zero
           /\ beam.M_star = beam.M_hogging
           /\ ~Positive(beam.R_left)
    /\ LET b == OverhangUdlOnly(I(4), I(1), I(5))
       IN  /\ b.R_left = Q(-5, 6)
           /\ b.R_right = Q(35, 6)
           /\ b.M_hogging = Q(5, 2)
           /\ b.M_sagging = Zero
           /\ b.M_star = Q(5, 2)

C19_Witness ==
    /\ OverhangOnly
    /\ Positive(beam.w_uls_cant) /\ Positive(beam.cant_span_m)
    /\ Len(beam.point_loads_cant) = 1
    /\ Negative(beam.R_left)
    /\ RLt(UdlHogging(beam.w_uls_cant, beam.cant_span_m), beam.M_hogging)
    /\ RLt(beam.R_left,
           UdlUplift(beam.w_uls_cant, beam.cant_span_m, beam.back_span_m))

(***************************************************************************)
(* Line loads and the governing combination.                               *)
(***************************************************************************)
InputBack == LineLoads(inp.G_back, inp.Q_back)

InputCant == LineLoads(inp.G_cant, inp.Q_cant)

(* 1.35 G *)
PermanentOnly(ll) == RMul(Q(135, 100), ll.G)

(* 1.2 G + 1.5 Q *)
PermanentAndImposed(ll) ==
    RAdd(RMul(Q(12, 10), ll.G), RMul(Q(15, 10), ll.Q))

LineLoadsContract(ll) ==
    /\ Largest(PermanentOnly(ll), PermanentAndImposed(ll), w_uls(ll))
    /\ w_sls_short(ll) = RAdd(ll.G, RMul(Q(7, 10), ll.Q))
    /\ w_sls_long(ll) = RAdd(ll.G, RMul(Q(4, 10), ll.Q))
    /\ uls_combo_label(ll) \in {"1.35G", "1.2G + 1.5Q"}
    /\ uls_combo_label(ll) = "1.35G" <=>
           RLe(PermanentAndImposed(ll), PermanentOnly(ll))
    /\ uls_combo_label(ll) = "1.35G" => w_uls(ll) = PermanentOnly(ll)
    /\ uls_combo_label(ll) = "1.2G + 1.5Q" =>
           w_uls(ll) = PermanentAndImposed(ll)

Tie(ll) == PermanentOnly(ll) = PermanentAndImposed(ll)

Called == call.beam_type # "none"

(* C20: for line loads with G >= 0 and Q >= 0, w_uls is the larger of      *)
(* 1.35 G and 1.2 G + 1.5 Q, w_sls_short = G + 0.7 Q and w_sls_long =      *)
(* G + 0.4 Q, and uls_combo_label names a combination whose value is       *)
(* w_uls: '1.35G' exactly when 1.35 G >= 1.2 G + 1.5 Q, a tie included,    *)
(* and '1.2G + 1.5Q' otherwise.  The analysis is called with these values  *)
(* and the application reports these labels.                               *)
C20_LineLoads ==
    /\ RLe(Zero, inp.G_back) /\ RLe(Zero, inp.Q_back)
    /\ RLe(Zero, inp.G_cant) /\ RLe(Zero, inp.Q_cant)
    /\ LineLoadsContract(InputBack)
    /\ LineLoadsContract(InputCant)
    /\ LineLoadsContract(LineLoads(I(10), I(1)))
    /\ uls_combo_label(LineLoads(I(10), I(1))) = "1.35G"
    /\ Called =>
           /\ call.w_uls = w_uls(InputBack)
           /\ call.w_sls_short = w_sls_short(InputBack)
           /\ call.w_sls_long = w_sls_long(InputBack)
           /\ call.w_uls_cant = w_uls(InputCant)
    /\ Reported =>
           /\ report.uls_combo_label = "1.35G" <=>
                  RLe(PermanentAndImposed(InputBack), PermanentOnly(InputBack))
           /\ IsOverhanging =>
                  (report.uls_combo_label_cant = "1.35G" <=>
                      RLe(PermanentAndImposed(InputCant),
                          PermanentOnly(InputCant)))

C20_Witness ==
    /\ Reported /\ IsOverhanging
    /\ report.uls_combo_label = "1.35G"
    /\ report.uls_combo_label_cant = "1.2G + 1.5Q"
    /\ call.w_uls = Q(135, 100)
    /\ call.w_uls_cant = Q(27, 10)
    /\ Tie(LineLoads(I(10), I(1)))

(* A tie between the combinations in a call: no load at all. *)
C20_WitnessTie ==
    /\ Called
    /\ Tie(InputBack)
    /\ uls_combo_label(InputBack) = "1.35G"

(***************************************************************************)
(* Line loads from the load entries and the self-weight.                   *)
(***************************************************************************)
Returned(fn) == pc = "returned" /\ ret.fn = fn

(* dead_kpa * trib_width for each entry of the list *)
DeadLines(entries) ==
    [i \in 1..Len(entries) |->
        RMul(entries[i].dead_kpa, entries[i].trib_width_m)]

(* live_kpa * trib_width for each entry of the list *)
LiveLines(entries) ==
    [i \in 1..Len(entries) |->
        RMul(entries[i].live_kpa, entries[i].trib_width_m)]

(* density * b * d * 9.81 / 1000 with b and d in metres *)
SelfWeight(b_mm, d_mm, density) ==
    RDiv(RMul(density,
              RMul(RMul(RDiv(b_mm, I(1000)), RDiv(d_mm, I(1000))),
                   Q(981, 100))),
         I(1000))

RetSelfWeight == SelfWeight(ret.b_mm, ret.d_mm, ret.density)

(* C21: compute_line_loads(structured, self_weight) returns G = sum of     *)
(* dead_kpa * trib_width over the entries plus the self-weight and Q = sum *)
(* of live_kpa * trib_width; the self-weight, density * b * d * 9.81/1000  *)
(* with b and d in metres, enters G only; an empty list gives G =          *)
(* self_weight and Q = 0 and no error.                                     *)
C21_LineLoadsFromEntries ==
    Returned("compute_line_loads") =>
        /\ IsNum(ret.value.G) /\ IsNum(ret.value.Q)
        /\ ret.value.G = RAdd(Sum(DeadLines(ret.entries)), RetSelfWeight)
        /\ ret.value.Q = Sum(LiveLines(ret.entries))
        /\ ret.entries = <<>> =>
               ret.value.G = RetSelfWeight /\ ret.value.Q = Zero

C21_Witness ==
    /\ Returned("compute_line_loads")
    /\ Len(ret.entries) = 2
    /\ ret.entries[1] # ret.entries[2]
    /\ Positive(RetSelfWeight)
    /\ Positive(ret.value.Q)
    /\ RLt(Sum(DeadLines(ret.entries)), ret.value.G)

(* The empty list: the self-weight alone. *)
C21_WitnessEmpty ==
    /\ Returned("compute_line_loads")
    /\ ret.entries = <<>>
    /\ Positive(ret.value.G) /\ ret.value.Q = Zero

(***************************************************************************)
(* Midspan deflection under a point load.                                  *)
(***************************************************************************)
MidspanUnder(pl, a_m) ==
    calc_deflection_point_load(pl.P_sls, a_m, beam.span_m, ChkE, ChkIx)

Mirrored(pl) == RSub(beam.span_m, pl.a_m)

CheckedSimplySupported ==
    Checked /\ IsSimplySupported /\ Positive(beam.span_m)

(* C22: calc_deflection_point_load is symmetric in the position of the     *)
(* load: for P, L > 0 and 0 < a < L the midspan deflection for a load at a *)
(* equals that for the same load at L - a, and it is not negative for      *)
(* P >= 0.                                                                 *)
C22_PointLoadDeflectionSymmetric ==
    CheckedSimplySupported =>
        \A pl \in Range(beam.point_loads) :
           /\ InsideSpan(pl, beam.span_m)
           /\ RLe(Zero, pl.P_sls)
           /\ MidspanUnder(pl, pl.a_m) = MidspanUnder(pl, Mirrored(pl))
           /\ RLe(Zero, MidspanUnder(pl, pl.a_m))

C22_Witness ==
    /\ CheckedSimplySupported
    /\ \E pl \in Range(beam.point_loads) :
          /\ RLt(pl.a_m, Mirrored(pl))
          /\ Positive(MidspanUnder(pl, pl.a_m))
          /\ MidspanUnder(pl, pl.a_m) = MidspanUnder(pl, Mirrored(pl))

(***************************************************************************)
(* The strength-sharing factor in the bending capacity.                    *)
(***************************************************************************)
(* The engineered products of the table carry phi = 0.9, the glulam grades *)
(* k2 = 1.5.                                                               *)
Engineered(grade_name) == TIMBER_GRADES[grade_name].phi = Q(9, 10)

Glulam(grade_name) == TIMBER_GRADES[grade_name].k2 = Q(15, 10)

Locked(grade_name) == Engineered(grade_name) \/ Glulam(grade_name)

(* Values the k9 input can be given: 1.0 to 1.33. *)
K9Entries == { I(1), Q(12, 10), Q(133, 100) }

(* phi k1 k4 k6 k9 k12 f'b Zx, in kNm *)
BendingCapacity(k9) ==
    RDiv(RMul(RMul(RMul(RMul(RMul(RMul(RMul(ChkGrade.phi, chk.f.k1), I(1)),
                                  chk.f.k6), k9), chk.f.k12), ChkGrade.fb),
              RDiv(RMul(chk.section.b, RMul(chk.section.d, chk.section.d)),
                   I(6))),
         I(1000000))

BendingResults == { r \in Range(results) : r.unit = "kNm" }

(* C23: for a grade that is an engineered product or glulam the k9 that    *)
(* enters the bending capacity is 1.0 whatever was entered; for the other  *)
(* grades it is the entered value, between 1.0 and 1.33.  The bending      *)
(* capacity is phi k1 k4 k6 k9 k12 f'b Zx.                                 *)
C23_StrengthSharingLocked ==
    /\ \A grade_name \in GradeNames, entered \in K9Entries :
          k9_widget(grade_name, entered) =
              IF Locked(grade_name) THEN I(1) ELSE entered
    /\ Reported =>
           /\ Locked(chk.grade_name) => chk.f.k9 = I(1)
           /\ ~Locked(chk.grade_name) => chk.f.k9 = chk.k9_entered
           /\ RLe(I(1), chk.f.k9) /\ RLe(chk.f.k9, Q(133, 100))
           /\ BendingResults # {}
           /\ \A r \in BendingResults : r.capacity = BendingCapacity(chk.f.k9)

C23_Witness ==
    /\ Reported
    /\ Locked(chk.grade_name)
    /\ chk.k9_entered = Q(12, 10)
    /\ chk.f.k9 = I(1)
    /\ \E r \in BendingResults :
          /\ Positive(r.capacity)
          /\ r.capacity = BendingCapacity(I(1))
          /\ r.capacity # BendingCapacity(chk.k9_entered)

(* A sawn grade: the entered k9 raises the capacity. *)
C23_WitnessSawn ==
    /\ Reported
    /\ ~Locked(chk.grade_name)
    /\ chk.f.k9 = Q(12, 10)
    /\ \E r \in BendingResults : r.capacity = BendingCapacity(Q(12, 10))

(***************************************************************************)
(* Configuration errors.                                                   *)
(***************************************************************************)
(* C24: TimberSection(b, d) raises ValueError exactly when b <= 0 or       *)
(* d <= 0 and otherwise holds b and d unchanged; get_grade(name) raises    *)
(* ValueError exactly when name is not a key of the grade table and        *)
(* otherwise returns that grade's record; in the error case nothing else   *)
(* is returned.                                                            *)
C24_ConfigurationErrorsFailFast ==
    /\ Returned("TimberSection") =>
          /\ IsValueError(ret.value) <=>
                 (~Positive(ret.width_mm) \/ ~Positive(ret.depth_mm))
          /\ IsValueError(ret.value) =>
                 /\ ret.value = ValueError
                 /\ DOMAIN ret.value \cap {"b", "d"} = {}
          /\ ~IsValueError(ret.value) =>
                 /\ DOMAIN ret.value = {"b", "d"}
                 /\ ret.value.b = ret.width_mm
                 /\ ret.value.d = ret.depth_mm
    /\ Returned("get_grade") =>
          /\ IsValueError(ret.value) <=> (ret.grade_name \notin GradeNames)
          /\ IsValueError(ret.value) =>
                 /\ ret.value = ValueError
                 /\ \A grade_name \in GradeNames :
                       ret.value # TIMBER_GRADES[grade_name]
          /\ ~IsValueError(ret.value) =>
                 ret.value = TIMBER_GRADES[ret.grade_name]

(* A zero width with a positive depth is refused. *)
C24_Witness ==
    /\ Returned("TimberSection")
    /\ ret.width_mm = Zero
    /\ Positive(ret.depth_mm)
    /\ ret.value = ValueError

C24_WitnessSection ==
    /\ Returned("TimberSection")
    /\ ret.value = [b |-> I(45), d |-> I(90)]

C24_WitnessUnknownGrade ==
    /\ Returned("get_grade")
    /\ ret.grade_name = "sg8"
    /\ ret.value = ValueError

C24_WitnessGrade ==
    /\ Returned("get_grade")
    /\ ret.grade_name = "SG8"
    /\ ret.value.fb = I(14)

(***************************************************************************)
(* Vertical equilibrium.                                                   *)
(***************************************************************************)
(* The factored point loads of a list, added up. *)
PointLoadsOf(pls) == Sum([i \in 1..Len(pls) |-> pls[i].P_uls])

(* The load the analysis was called with, simply supported and overhanging. *)
AppliedSimplySupported ==
    RAdd(RMul(call.w_uls, call.total_span_m), PointLoadsOf(call.point_loads))

AppliedOverhanging ==
    RAdd(RAdd(RMul(call.w_uls, RSub(call.total_span_m, call.cant_span_m)),
              RMul(call.w_uls_cant, call.cant_span_m)),
         RAdd(PointLoadsOf(call.point_loads_back),
              PointLoadsOf(call.point_loads_cant)))

(* C27: the reactions returned by analyse_simply_supported add up to       *)
(* w_uls L + sum of P_uls, and those returned by analyse_overhanging to    *)
(* w_uls_back l + w_uls_cant a + sum of P_uls over the back-span and       *)
(* overhang point loads.                                                   *)
C27_VerticalEquilibrium ==
    /\ (HasBeam /\ IsSimplySupported /\ Positive(call.total_span_m)) =>
           RSub(RAdd(beam.R_left, beam.R_right), AppliedSimplySupported) = Zero
    /\ (HasBeam /\ IsOverhanging) =>
           RSub(RAdd(beam.R_left, beam.R_right), AppliedOverhanging) = Zero

(* An overhanging beam with UDL and a point load on both parts, the left   *)
(* support held down.                                                      *)
C27_Witness ==
    /\ HasBeam /\ IsOverhanging
    /\ Positive(call.w_uls) /\ Positive(call.w_uls_cant)
    /\ Len(call.point_loads_back) > 0 /\ Len(call.point_loads_cant) > 0
    /\ Positive(PointLoadsOf(call.point_loads_back))
    /\ Positive(PointLoadsOf(call.point_loads_cant))
    /\ RLt(beam.R_left, beam.R_right)
    /\ RAdd(beam.R_left, beam.R_right) = AppliedOverhanging

C27_WitnessSimplySupported ==
    /\ HasBeam /\ IsSimplySupported
    /\ Positive(call.w_uls)
    /\ Len(call.point_loads) = 2
    /\ Positive(PointLoadsOf(call.point_loads))
    /\ RAdd(beam.R_left, beam.R_right) = AppliedSimplySupported

(***************************************************************************)
(* An overhanging beam with nothing on its overhang.                       *)
(***************************************************************************)
OverhangUnloaded ==
    /\ HasBeam /\ IsOverhanging
    /\ call.w_uls_cant = Zero /\ call.point_loads_cant = <<>>

(* analyse_simply_supported on the back span, under the back-span loads. *)
BackSpanAsSimpleSpan ==
    analyse_simply_supported(
        RSub(call.total_span_m, call.cant_span_m), call.w_uls,
        call.w_sls_short, call.w_sls_long, call.point_loads_back,
        call.w_G_back, call.w_psi_lQ_back)

(* C28: with no load on the overhang, analyse_overhanging on back span l   *)
(* agrees with analyse_simply_supported on span l under the same back-span *)
(* UDL and point loads: R_left, R_right, V_star and R_max are equal,       *)
(* M_sagging is the simply supported M_star, and M_hogging = 0.            *)
C28_UnloadedOverhangIsSimpleSpan ==
    OverhangUnloaded =>
        LET ss == BackSpanAsSimpleSpan
        IN  /\ beam.R_left = ss.R_left
            /\ beam.R_right = ss.R_right
            /\ beam.V_star = ss.V_star
            /\ beam.R_max = ss.R_max
            /\ beam.M_sagging = ss.M_star
            /\ beam.M_hogging = Zero

C28_Witness ==
    /\ OverhangUnloaded
    /\ Positive(call.w_uls)
    /\ Len(call.point_loads_back) > 0
    /\ Positive(PointLoadsOf(call.point_loads_back))
    /\ Positive(beam.M_sagging)
    /\ beam.M_sagging = BackSpanAsSimpleSpan.M_star
    /\ beam.M_star = beam.M_sagging

(***************************************************************************)
(* app.py, the multi-beam session.  st.session_state holds the list beams, *)
(* active_beam_idx and one entry per widget key.  Every widget of the      *)
(* design inputs has a key that starts with "b<active_idx>_".  A click or  *)
(* an edit runs main() again; the buttons of the beam list change the      *)
(* list and call st.rerun(), which stops that run before any input widget  *)
(* is rendered and starts another.  A run that reaches its end leaves      *)
(* session_state without the keys of widgets it did not render; whether    *)
(* a run stopped by st.rerun() does so too depends on the Streamlit        *)
(* release, which the repository does not pin: stale_on_rerun.             *)
(***************************************************************************)
MaxBeams == 2

(* Three of the input widgets: the beam name, the total span and the Roof  *)
(* load checkbox.                                                          *)
WidgetFields == { "beam_name", "span", "chk_Roof" }

(* f"b{idx}_{field}" *)
Key(idx, field) == << idx, field >>

(* k.startswith(f"b{idx}_") *)
StartsWith(k, idx) == k[1] = idx

(* f"Beam {n}" *)
BeamName(n) == << "Beam ", n >>

(* id is the identity of the dict object; default_beam_state() has no      *)
(* saved_inputs, which reads as {}.                                        *)
default_beam_state(id) ==
    [id |-> id, name |-> BeamName(1), saved_inputs |-> << >>]

(* A fresh object: an identity no live beam has. *)
NewId(bs) ==
    CHOOSE n \in 1..(Len(bs) + 1) :
        /\ \A i \in 1..Len(bs) : bs[i].id # n
        /\ \A m \in 1..(n - 1) : \E i \in 1..Len(bs) : bs[i].id = m

(* value= of each widget *)
WidgetDefault(field, current_beam) ==
    CASE field = "beam_name" -> current_beam.name
      [] field = "span" -> 4
      [] field = "chk_Roof" -> TRUE

(* What the user can set the span and the checkbox to. *)
WidgetValues(field) == IF field = "span" THEN { 4, 5 } ELSE BOOLEAN

(* for _k, _v in saved_inputs.items(): if _k not in st.session_state: ... *)
Restore(ss, saved_inputs) ==
    [k \in DOMAIN ss \cup DOMAIN saved_inputs |->
        IF k \in DOMAIN ss THEN ss[k] ELSE saved_inputs[k]]

(* A keyed widget shows the entry of its key, or value= if there is none,  *)
(* and leaves what it shows under its key.                                 *)
Widgets(ss, idx, current_beam) ==
    [field \in WidgetFields |->
        IF Key(idx, field) \in DOMAIN ss
        THEN ss[Key(idx, field)]
        ELSE WidgetDefault(field, current_beam)]

AfterWidgets(ss, idx, shown) ==
    [k \in DOMAIN ss \cup { Key(idx, field) : field \in WidgetFields } |->
        IF StartsWith(k, idx) /\ k[2] \in WidgetFields
        THEN shown[k[2]] ELSE ss[k]]

(* {k: v for k, v in st.session_state.items() if k.startswith(_pfx)} *)
SavedInputs(ss, idx) ==
    [k \in { j \in DOMAIN ss : StartsWith(j, idx) } |-> ss[k]]

(* The keys of the widgets that were rendered stay. *)
Rendered(ss, idx) ==
    [k \in { j \in DOMAIN ss : StartsWith(j, idx) /\ j[2] \in WidgetFields }
        |-> ss[k]]

(* A run stopped by st.rerun() rendered no input widget. *)
Stopped(ss) == IF stale_on_rerun THEN << >> ELSE ss

(* Variant: the last beam goes. *)
pop_last(bs, active_idx) == [i \in 1..(Len(bs) - 1) |-> bs[i]]

(* beams.pop(active_idx) *)
pop(bs, active_idx) ==
    [i \in 1..(Len(bs) - 1) |->
        IF i < active_idx + 1 THEN bs[i] ELSE bs[i + 1]]

Smaller(x, y) == IF x < y THEN x ELSE y

Ids(bs) == [i \in 1..Len(bs) |-> bs[i].id]

SavedById(bs) ==
    [id \in { bs[i].id : i \in 1..Len(bs) } |->
        (CHOOSE b \in { bs[i] : i \in 1..Len(bs) } : b.id = id).saved_inputs]

(* main() from the restore of the widget states to the end: restore, the   *)
(* widgets, the guard "no loads selected" that returns before anything is  *)
(* saved, and the save of the widget states with the beam.  The handler    *)
(* that led to the run, the list before it and what the beam had saved     *)
(* when the run began are kept with what the run showed.                   *)
Run(bs, idx, ss, op, before, idx_before) ==
    LET current_beam == bs[idx + 1]
        restored == Restore(ss, current_beam.saved_inputs)
        shown == Widgets(restored, idx, current_beam)
        after == AfterWidgets(restored, idx, shown)
        named == [current_beam EXCEPT !.name = shown["beam_name"]]
        saved == IF shown["chk_Roof"]
                 THEN [named EXCEPT !.saved_inputs = SavedInputs(after, idx)]
                 ELSE named
    IN  [beams |-> [bs EXCEPT ![idx + 1] = saved],
         active_beam_idx |-> idx,
         session_state |-> Rendered(after, idx),
         rendered |-> [op |-> op, shown |-> shown,
                       saved_on_entry |-> current_beam.saved_inputs,
                       persisted |-> shown["chk_Roof"],
                       ids_before |-> Ids(before),
                       saved_before |-> SavedById(before),
                       idx_before |-> idx_before]]

Rerun(run) ==
    /\ beams' = run.beams
    /\ active_beam_idx' = run.active_beam_idx
    /\ session_state' = run.session_state
    /\ rendered' = run.rendered
    /\ UNCHANGED << stale_on_rerun, core_vars, store_vars >>

(* The design run is not followed here. *)
CoreIdle ==
    /\ pc = "session" /\ caller = "none" /\ inp = NoCall /\ call = NoCall
    /\ beam = NoBeam /\ chk = NoChk /\ results = << >> /\ err = "none"
    /\ report = NoReport /\ ret = NoRet

(* The first run of a session. *)
SessionInit ==
    /\ stale_on_rerun \in BOOLEAN
    /\ LET run == Run(<< default_beam_state(1) >>, 0, << >>, "first", << >>, 0)
       IN  /\ beams = run.beams
           /\ active_beam_idx = run.active_beam_idx
           /\ session_state = run.session_state
           /\ rendered = run.rendered
    /\ CoreIdle
    /\ StoreIdle

AddBeam ==
    /\ Len(beams) < MaxBeams
    /\ LET new_beam == [default_beam_state(NewId(beams))
                           EXCEPT !.name = BeamName(Len(beams) + 1)]
           bs == Append(beams, new_beam)
       IN  Rerun(Run(bs, Len(bs) - 1, Stopped(session_state), "add", beams,
                     active_beam_idx))

RemoveBeam ==
    /\ Len(beams) > 1
    /\ LET bs == pop(beams, active_beam_idx)
       IN  Rerun(Run(bs, Smaller(active_beam_idx, Len(bs) - 1),
                     Stopped(session_state), "remove", beams,
                     active_beam_idx))

SelectBeam ==
    \E i \in 0..(Len(beams) - 1) :
        Rerun(Run(beams, i, Stopped(session_state), "select", beams,
                  active_beam_idx))

(* The user changes the span or the checkbox of the active beam. *)
EditInput ==
    \E field \in { "span", "chk_Roof" } :
      \E v \in WidgetValues(field) :
        /\ session_state[Key(active_beam_idx, field)] # v
        /\ Rerun(Run(beams, active_beam_idx,
                     [session_state EXCEPT ![Key(active_beam_idx, field)] = v],
                     "edit", beams, active_beam_idx))

SessionNext ==
    \/ AddBeam
    \/ RemoveBeam
    \/ SelectBeam
    \/ EditInput

SessionSpec == SessionInit /\ [][SessionNext]_vars

(***************************************************************************)
(* Properties of the session.                                              *)
(***************************************************************************)
(* A list without its element at position idx, counted from 0. *)
Without(ids, idx) ==
    SubSeq(ids, 1, idx) \o SubSeq(ids, idx + 2, Len(ids))

(* C29: the beam list is never empty and active_beam_idx is a valid index  *)
(* of it; remove is only possible with more than one beam and removes      *)
(* exactly the active beam.                                                *)
C29_BeamListValid ==
    /\ Len(beams) >= 1
    /\ active_beam_idx \in 0..(Len(beams) - 1)
    /\ Len(beams) = 1 => ~ENABLED RemoveBeam
    /\ rendered.op = "remove" =>
          /\ Len(rendered.ids_before) > 1
          /\ Ids(beams) = Without(rendered.ids_before, rendered.idx_before)
    /\ rendered.op = "add" =>
          /\ Len(beams) = Len(rendered.ids_before) + 1
          /\ active_beam_idx = Len(beams) - 1

(* The first beam of a full list was active and has been removed. *)
C29_Witness ==
    /\ rendered.op = "remove"
    /\ Len(rendered.ids_before) = MaxBeams
    /\ rendered.idx_before = 0
    /\ active_beam_idx = 0
    /\ Ids(beams) = Tail(rendered.ids_before)

(* The last beam was active and has been removed: the index moves down. *)
C29_WitnessLast ==
    /\ rendered.op = "remove"
    /\ rendered.idx_before = Len(rendered.ids_before) - 1
    /\ active_beam_idx = rendered.idx_before - 1

(* The values a beam has saved, by widget. *)
ByField(saved_inputs) ==
    [field \in { k[2] : k \in DOMAIN saved_inputs } |->
        saved_inputs[CHOOSE k \in DOMAIN saved_inputs : k[2] = field]]

ActiveBeam == beams[active_beam_idx + 1]

(* The run rendered another beam than the one that was active before. *)
Switched ==
    /\ rendered.op \in { "add", "remove", "select" }
    /\ ActiveBeam.id # rendered.ids_before[rendered.idx_before + 1]

(* C25: after add-beam, remove-beam and select-beam steps the input values *)
(* shown for the active beam are the ones last saved for that same beam,   *)
(* and adding or removing another beam does not change the inputs of the   *)
(* remaining beams.                                                        *)
C25_InputsSurviveSwitches ==
    /\ Switched =>
          \A k \in DOMAIN rendered.saved_on_entry :
              rendered.shown[k[2]] = rendered.saved_on_entry[k]
    /\ rendered.op \in { "add", "remove" } =>
          \A i \in 1..Len(beams) :
              beams[i].id \in DOMAIN rendered.saved_before =>
                  ByField(beams[i].saved_inputs) =
                      ByField(rendered.saved_before[beams[i].id])

(***************************************************************************)
(* database.py: users, projects and beams in SQLite.  Every function       *)
(* opens its own connection with foreign keys enforced, and either commits *)
(* all its statements or, when one of them raises, closes the connection   *)
(* without commit: nothing of the call is kept.  The ids are AUTOINCREMENT: *)
(* sqlite_sequence holds the largest id each table has given out.          *)
(***************************************************************************)
MaxIds == 5

(* PRAGMA foreign_keys = ON *)
foreign_keys_off == FALSE

foreign_keys == TRUE

_SKIP_KEYS ==
    { "results", "beam_actions", "section", "grade", "line_loads",
      "line_loads_cant", "active_entries", "point_load_list" }

(* A Python value is a record of its type t and its content: a str s, a   *)
(* float x, a bool b, the items of a dict, the ISO form of a datetime.date, *)
(* the str() of any other object.  A JSON document is a record of its kind  *)
(* j and its content.                                                      *)
(* json.dumps(v, default=str): what JSON cannot express goes through str() *)
RECURSIVE dumps(_)
dumps(v) ==
    CASE v.t = "NoneType" -> [j |-> "null"]
      [] v.t = "str" -> [j |-> "string", s |-> v.s]
      [] v.t = "float" -> [j |-> "number", x |-> v.x]
      [] v.t = "bool" -> [j |-> "boolean", b |-> v.b]
      [] v.t = "dict" ->
            [j |-> "object",
             members |-> [k \in DOMAIN v.items |-> dumps(v.items[k])]]
      [] v.t = "date" -> [j |-> "string", s |-> v.iso]
      [] v.t = "object" -> [j |-> "string", s |-> v.repr]

(* json.loads *)
RECURSIVE loads(_)
loads(doc) ==
    CASE doc.j = "null" -> [t |-> "NoneType"]
      [] doc.j = "string" -> [t |-> "str", s |-> doc.s]
      [] doc.j = "number" -> [t |-> "float", x |-> doc.x]
      [] doc.j = "boolean" -> [t |-> "bool", b |-> doc.b]
      [] doc.j = "object" ->
            [t |-> "dict",
             items |-> [k \in DOMAIN doc.members |-> loads(doc.members[k])]]

(* {k: v for k, v in beam.items() if k not in _SKIP_KEYS} *)
safe(beam_dict) ==
    [t |-> "dict",
     items |-> [k \in DOMAIN beam_dict.items \ _SKIP_KEYS |->
                   beam_dict.items[k]]]

_serialise_beam(beam_dict) == dumps(safe(beam_dict))

(* beam.get("name", f"Beam {i + 1}"), i counted from 0 *)
NameColumn(beam_dict, i) ==
    IF "name" \in DOMAIN beam_dict.items
    THEN beam_dict.items["name"]
    ELSE [t |-> "str", s |-> BeamName(i + 1)]

(* username.strip(), a name being a sequence of characters *)
strip(name) ==
    LET inner == { i \in 1..Len(name) : name[i] # " " }
    IN  IF inner = {} THEN << >>
        ELSE SubSeq(name, CHOOSE i \in inner : \A k \in inner : i <= k,
                    CHOOSE i \in inner : \A k \in inner : i >= k)

UserIds == { u.id : u \in users }

ProjectIds == { p.id : p \in projects }

(* SELECT ... WHERE project_id = ? ORDER BY position *)
RowsOf(rows, project_id) == { r \in rows : r.project_id = project_id }

RECURSIVE OrderByPosition(_)
OrderByPosition(rows) ==
    IF rows = {} THEN << >>
    ELSE LET first == CHOOSE r \in rows :
                         \A q \in rows : r.position < q.position \/
                                         (r.position = q.position /\ r.id <= q.id)
         IN  << first >> \o OrderByPosition(rows \ { first })

load_beams(project_id) ==
    LET ordered == OrderByPosition(RowsOf(beam_rows, project_id))
    IN  [i \in 1..Len(ordered) |-> loads(ordered[i].beam_data)]

(* The rows save_beams inserts, the table having given out ids up to last. *)
Inserted(project_id, beam_list, last) ==
    { [id |-> last + i, project_id |-> project_id,
       name |-> NameColumn(beam_list[i], i - 1), position |-> i - 1,
       beam_data |-> _serialise_beam(beam_list[i])] : i \in 1..Len(beam_list) }

(* An INSERT fails on name NOT NULL, or on the foreign key. *)
InsertRaises(project_id, beam_list) ==
    \E i \in 1..Len(beam_list) :
        \/ NameColumn(beam_list[i], i - 1).t = "NoneType"
        \/ foreign_keys /\ project_id \notin ProjectIds

(* Whether the three tables can give out n more ids. *)
Fits(n) ==
    sqlite_sequence.users + sqlite_sequence.projects
        + sqlite_sequence.beams + n <= MaxIds

(* The ids a call is made with: those a table has given out, and one it    *)
(* never has.                                                              *)
AskedIds(table) == 1..(sqlite_sequence[table] + 1)

Snapshot == [users |-> users, projects |-> projects, beam_rows |-> beam_rows]

(* init_db(): the tables, and the admin account. *)
StoreInit ==
    /\ users = { [id |-> 1, username |-> << "a" >>] }
    /\ projects = {}
    /\ beam_rows = {}
    /\ sqlite_sequence = [users |-> 1, projects |-> 0, beams |-> 0]
    /\ db_result = [fn |-> "init_db"]
    /\ CoreIdle
    /\ SessionIdle

Usernames == { << "a" >>, << "b" >>, << " ", "b", " " >> }

CreateUser ==
    \E username \in Usernames :
        /\ IF \E u \in users : u.username = strip(username)
           THEN /\ db_result' = [fn |-> "create_user", username |-> username,
                                 value |-> FALSE, before |-> Snapshot]
                /\ UNCHANGED << users, sqlite_sequence >>
           ELSE /\ Fits(1)
                /\ users' = users \cup
                       { [id |-> sqlite_sequence.users + 1,
                          username |-> strip(username)] }
                /\ sqlite_sequence' =
                       [sqlite_sequence EXCEPT !.users = @ + 1]
                /\ db_result' = [fn |-> "create_user", username |-> username,
                                 value |-> TRUE, before |-> Snapshot]
        /\ UNCHANGED << projects, beam_rows, core_vars, session_vars >>

DeleteUser ==
    \E user_id \in AskedIds("users") :
        /\ beam_rows' =
               { r \in beam_rows :
                   r.project_id \notin
                       { p.id : p \in { q \in projects : q.user_id = user_id } } }
        /\ projects' = { p \in projects : p.user_id # user_id }
        /\ users' = { u \in users : u.id # user_id }
        /\ db_result' = [fn |-> "delete_user", user_id |-> user_id,
                         before |-> Snapshot]
        /\ UNCHANGED << sqlite_sequence, core_vars, session_vars >>

CreateProject ==
    \E user_id \in AskedIds("users") :
        /\ IF foreign_keys /\ user_id \notin UserIds
           THEN /\ db_result' = [fn |-> "create_project", user_id |-> user_id,
                                 raised |-> "IntegrityError",
                                 before |-> Snapshot]
                /\ UNCHANGED << projects, sqlite_sequence >>
           ELSE /\ Fits(1)
                /\ projects' = projects \cup
                       { [id |-> sqlite_sequence.projects + 1,
                          user_id |-> user_id] }
                /\ sqlite_sequence' =
                       [sqlite_sequence EXCEPT !.projects = @ + 1]
                /\ db_result' = [fn |-> "create_project", user_id |-> user_id,
                                 raised |-> "none",
                                 value |-> sqlite_sequence.projects + 1,
                                 before |-> Snapshot]
        /\ UNCHANGED << users, beam_rows, core_vars, session_vars >>

DeleteProject ==
    \E project_id \in AskedIds("projects") :
        /\ beam_rows' = { r \in beam_rows : r.project_id # project_id }
        /\ projects' = { p \in projects : p.id # project_id }
        /\ db_result' = [fn |-> "delete_project", project_id |-> project_id,
                         before |-> Snapshot]
        /\ UNCHANGED << users, sqlite_sequence, core_vars, session_vars >>

(* The beams of a session: as default_beam_state() makes one, as main()    *)
(* leaves one after a design run, with the date of the report among its    *)
(* saved widget values, and a dict without a name.                         *)
BeamDicts ==
    { [t |-> "dict",
       items |-> [name |-> [t |-> "str", s |-> BeamName(1)],
                  results |-> [t |-> "NoneType"],
                  all_passed |-> [t |-> "NoneType"]]],
      [t |-> "dict",
       items |-> [name |-> [t |-> "str", s |-> BeamName(2)],
                  results |-> [t |-> "object", repr |-> "CheckResult"],
                  all_passed |-> [t |-> "bool", b |-> TRUE],
                  saved_inputs |->
                      [t |-> "dict",
                       items |-> [b0_span |-> [t |-> "float", x |-> 4],
                                  b0_date |-> [t |-> "date",
                                               iso |-> "2025-01-01"]]]]],
      [t |-> "dict", items |-> [all_passed |-> [t |-> "bool", b |-> FALSE]]] }

BeamLists == UNION { [1..n -> BeamDicts] : n \in 0..2 }

SaveBeams ==
    \E project_id \in AskedIds("projects"), beam_list \in BeamLists :
        /\ IF InsertRaises(project_id, beam_list)
           THEN /\ db_result' = [fn |-> "save_beams", project_id |-> project_id,
                                 beam_list |-> beam_list,
                                 raised |-> "IntegrityError",
                                 before |-> Snapshot]
                /\ UNCHANGED << beam_rows, sqlite_sequence >>
           ELSE /\ Fits(Len(beam_list))
                /\ beam_rows' =
                       (beam_rows \ RowsOf(beam_rows, project_id)) \cup
                       Inserted(project_id, beam_list, sqlite_sequence.beams)
                /\ sqlite_sequence' =
                       [sqlite_sequence EXCEPT !.beams = @ + Len(beam_list)]
                /\ db_result' = [fn |-> "save_beams", project_id |-> project_id,
                                 beam_list |-> beam_list, raised |-> "none",
                                 before |-> Snapshot]
        /\ UNCHANGED << users, projects, core_vars, session_vars >>

LoadBeams ==
    \E project_id \in AskedIds("projects") :
        /\ db_result' = [fn |-> "load_beams", project_id |-> project_id,
                         value |-> load_beams(project_id),
                         before |-> Snapshot]
        /\ UNCHANGED << users, projects, beam_rows, sqlite_sequence >>
        /\ UNCHANGED << core_vars, session_vars >>

StoreNext ==
    \/ CreateUser
    \/ DeleteUser
    \/ CreateProject
    \/ DeleteProject
    \/ SaveBeams
    \/ LoadBeams

StoreSpec == StoreInit /\ [][StoreNext]_vars

(***************************************************************************)
(* Properties of the store.                                                *)
(***************************************************************************)
DbCalled(fn) == db_result.fn = fn

Failed ==
    \/ DbCalled("create_user") /\ ~db_result.value
    \/ DbCalled("create_project") /\ db_result.raised # "none"
    \/ DbCalled("save_beams") /\ db_result.raised # "none"

(* C30: every stored beam belongs to an existing project and every project *)
(* to an existing user, whatever calls were made and whether they failed;  *)
(* delete_user removes the user's projects and all their beams,            *)
(* delete_project removes the project's beams, and usernames stay unique:  *)
(* create_user with an existing name returns False and changes nothing.    *)
C30_ReferentialIntegrity ==
    /\ \A r \in beam_rows : r.project_id \in ProjectIds
    /\ \A p \in projects : p.user_id \in UserIds
    /\ \A u, v \in users : (u.username = v.username \/ u.id = v.id) => u = v
    /\ Failed => Snapshot = db_result.before
    /\ DbCalled("create_user") =>
          /\ db_result.value <=>
                ~\E u \in db_result.before.users :
                     u.username = strip(db_result.username)
          /\ \E u \in users : u.username = strip(db_result.username)
    /\ DbCalled("delete_user") =>
          LET gone == { p \in db_result.before.projects :
                            p.user_id = db_result.user_id }
          IN  /\ db_result.user_id \notin UserIds
              /\ users = { u \in db_result.before.users :
                               u.id # db_result.user_id }
              /\ projects = db_result.before.projects \ gone
              /\ beam_rows = { r \in db_result.before.beam_rows :
                                   r.project_id \notin { p.id : p \in gone } }
    /\ DbCalled("delete_project") =>
          /\ db_result.project_id \notin ProjectIds
          /\ users = db_result.before.users
          /\ projects = { p \in db_result.before.projects :
                              p.id # db_result.project_id }
          /\ beam_rows = { r \in db_result.before.beam_rows :
                               r.project_id # db_result.project_id }

(* A user with a project that held beams has been deleted, and another     *)
(* user is left.                                                           *)
C30_Witness ==
    /\ DbCalled("delete_user")
    /\ \E p \in db_result.before.projects :
          /\ p.user_id = db_result.user_id
          /\ RowsOf(db_result.before.beam_rows, p.id) # {}
    /\ users # {}
    /\ beam_rows = {}

(* Calls that fail: a project for a user that is gone, beams for a project *)
(* that does not exist, a user name that is taken once stripped.           *)
C30_WitnessFailedProject ==
    /\ DbCalled("create_project") /\ db_result.raised = "IntegrityError"
    /\ db_result.before.projects # {}

C30_WitnessFailedSave ==
    /\ DbCalled("save_beams") /\ db_result.raised = "IntegrityError"
    /\ db_result.before.beam_rows # {}

C30_WitnessTaken ==
    /\ DbCalled("create_user") /\ ~db_result.value
    /\ db_result.username # strip(db_result.username)

Saved == DbCalled("save_beams") /\ db_result.raised = "none"

(* C26: after save_beams(project, beams) load_beams(project) returns       *)
(* exactly the saved beams, in list order, each without the keys of        *)
(* _SKIP_KEYS; no beam of an earlier save remains, the beams of every      *)
(* other project are unchanged, and saving the loaded list again stores    *)
(* the same beams.                                                         *)
C26_SaveLoadRoundTrip ==
    Saved =>
        LET project_id == db_result.project_id
            beam_list == db_result.beam_list
            loaded == load_beams(project_id)
            stored == OrderByPosition(RowsOf(beam_rows, project_id))
        IN  /\ loaded = [i \in 1..Len(beam_list) |-> safe(beam_list[i])]
            /\ Len(stored) = Len(beam_list)
            /\ \A r \in RowsOf(beam_rows, project_id) :
                  r \notin db_result.before.beam_rows
            /\ \A other \in ProjectIds \ { project_id } :
                  RowsOf(beam_rows, other) =
                      RowsOf(db_result.before.beam_rows, other)
            /\ \A i \in 1..Len(stored) :
                  /\ _serialise_beam(loaded[i]) = stored[i].beam_data
                  /\ NameColumn(loaded[i], i - 1) = stored[i].name

====
